---- MODULE Spec2Model ----
(***************************************************************************)
(* Model of the IoT sensor simulator: the DataProcessor (bounded history,  *)
(* statistics cache, threshold alerts) and the WebSocketServer (live       *)
(* client set, command handling, periodic generation loop).                *)
(*                                                                         *)
(* Values are integers (the whole-number readings of the float domain),    *)
(* time is in seconds.  A Python dict is a function whose DOMAIN is the    *)
(* set of keys present; an optional value is a sequence of length 0 or 1.  *)
(***************************************************************************)
EXTENDS Integers, Sequences, FiniteSets, TLC

VARIABLES
    \* ---- DataProcessor (src/data/data_processor.py) ----
    sensor_data,        \* _sensor_data: sensor id -> deque of readings
    stats_cache,        \* _stats_cache: sensor id -> statistics
    cache_expiry,       \* _cache_expiry: sensor id -> expiry time
    sensor_metadata,    \* _sensor_metadata: sensor id -> metadata
    total_readings,     \* _total_readings
    alerts,             \* _alerts
    cache_hits,         \* _cache_hits (an absent attribute reads as 0)
    cache_misses,       \* _cache_misses (an absent attribute reads as 0)
    now,                \* the wall clock (time.time(), datetime.now())
    \* ---- WebSocketServer (src/websocket/websocket_app.py) ----
    connected_clients,  \* the live-client set
    client_count,       \* total connections registered
    is_active,          \* sensor id -> the sensor's is_active flag
    reading_count,      \* sensor id -> the sensor's _reading_count
    is_running,         \* the server's running flag
    conn,               \* client -> state of its transport connection
    hpc,                \* client -> position of its connection handler
    hloc,               \* client -> locals of its handler's roster broadcast
    gen,                \* position and locals of sensor_data_loop
    outbox,             \* client -> messages delivered to it, in order
    tick,               \* history: the broadcasts of the current tick
    unregistered,       \* history: clients unregister_client was called for
    \* ---- history variables, read only by the properties ----
    allStored,          \* sensor id -> readings stored since creation/clear
    op,                 \* the last processor or server operation
    statPrev,           \* sensor id -> the previous statistics call
    budget,             \* operations left (bounds the exploration)
    \* ---- the processor's lock and a caller of export_data ----
    data_lock,          \* _data_lock: "free" or "held"
    export_call,        \* position and locals of an export_data call
    stats_call,         \* position and locals of a get_sensor_statistics call
    \* ---- one sensor object (src/sensors/sensor_simulator.py) ----
    sensor,             \* the fields of a sensor object
    sensor_hist         \* history: the sensor's last call and its detections

procVars == <<sensor_data, stats_cache, cache_expiry, sensor_metadata,
              total_readings, alerts, cache_hits, cache_misses>>
srvVars  == <<connected_clients, client_count, is_active, reading_count,
              is_running, conn, hpc, hloc, gen, outbox, tick, unregistered>>
histVars == <<allStored, op, statPrev, budget>>
lockVars == <<data_lock, export_call, stats_call>>
sensorVars == <<sensor, sensor_hist>>
extVars  == <<lockVars, sensorVars>>
vars     == <<procVars, now, srvVars, histVars, extVars>>

----------------------------------------------------------------------------
(* Bounds of the model *)

\* capacity of each history ring (max_readings_per_sensor, default 1000)
MaxReadings == 2
\* store operations explored in one behaviour of the processor
MaxStores == 3
\* clears explored in one behaviour of the history ring
MaxClears == 1
\* stores, and queries and clears, explored in one behaviour of the cache
MaxCacheStores == 2
MaxQueries == 3
\* stores explored in one behaviour of the alert evaluation
MaxAlertStores == 2
\* stores and export calls in one behaviour of the export
MaxExportStores == 2
MaxExports == 2
\* reads, is_active toggles and counter resets of one sensor object
MaxReads == 7
MaxToggles == 2
MaxResets == 1
\* the greatest limit given to a history query
MaxLimit == 3
\* ticks of the generation loop and client commands in one behaviour of the server
MaxTicks == 2
MaxCmds == 2
\* self._cache_duration
CacheDuration == 30

\* the clock advances by half the cache duration, up to the cache duration
TimeStep == CacheDuration \div 2
MaxTime == CacheDuration

----------------------------------------------------------------------------
(* Generic helpers *)

None == <<>>
Some(x) == <<x>>

\* d[k] = v, adding the key when it is absent
Put(d, k, v) == [x \in (DOMAIN d) \cup {k} |-> IF x = k THEN v ELSE d[x]]
\* del d[k]
Del(d, k) == [x \in (DOMAIN d) \ {k} |-> d[x]]
EmptyDict == [x \in {} |-> 0]

\* the last n elements of sequence s
LastN(s, n) == IF Len(s) <= n THEN s ELSE SubSeq(s, Len(s) - n + 1, Len(s))
Reverse(s) == [i \in 1..Len(s) |-> s[Len(s) + 1 - i]]

RECURSIVE SumSeq(_)
SumSeq(s) == IF s = <<>> THEN 0 ELSE Head(s) + SumSeq(Tail(s))

SeqMin(s) == CHOOSE v \in {s[i] : i \in 1..Len(s)} : \A j \in 1..Len(s) : v <= s[j]
SeqMax(s) == CHOOSE v \in {s[i] : i \in 1..Len(s)} : \A j \in 1..Len(s) : v >= s[j]

\* s sorted ascending (a permutation of s)
RECURSIVE Insert(_, _)
Insert(v, s) == IF s = <<>> THEN <<v>>
                ELSE IF v <= Head(s) THEN <<v>> \o s
                ELSE <<Head(s)>> \o Insert(v, Tail(s))
RECURSIVE Sorted(_)
Sorted(s) == IF s = <<>> THEN <<>> ELSE Insert(Head(s), Sorted(Tail(s)))

\* round(num / den, 2) in hundredths, ties to even, for den > 0
RoundDiv(num, den) ==
    LET q == num \div den
        r == num % den
    IN  IF 2 * r < den THEN q
        ELSE IF 2 * r > den THEN q + 1
        ELSE IF q % 2 = 0 THEN q ELSE q + 1
Round2(num, den) == RoundDiv(100 * num, den)

\* floor of the square root of n >= 0, searched between lo and hi
\* (46340 is the largest root whose square is a 32-bit integer)
RECURSIVE ISqrtIn(_, _, _)
ISqrtIn(n, lo, hi) ==
    IF lo >= hi THEN lo
    ELSE LET mid == (lo + hi + 1) \div 2
         IN  IF mid * mid <= n THEN ISqrtIn(n, mid, hi) ELSE ISqrtIn(n, lo, mid - 1)
ISqrt(n) == ISqrtIn(n, 0, IF n > 46340 THEN 46340 ELSE n)

----------------------------------------------------------------------------
(* Data model: src/models/sensor_reading.py *)

SensorStatus == {"active", "inactive", "error", "maintenance"}
SensorType == {"TemperatureSensor", "HumiditySensor", "MotionSensor",
               "LightSensor", "PressureSensor", "AirQualitySensor"}

\* datetime.isoformat(): the text form of a timestamp
isoformat(t) == [iso |-> t]

\* SensorReading.is_numeric: float(self.value) succeeds
is_numeric(reading) == reading.value \in Int

\* a SensorReading as its constructor builds it; an empty name gets a default
SensorReading(sid, type, value, unit, status, ts, location, name, count, meta) ==
    [sensor_id |-> sid, sensor_type |-> type, value |-> value, unit |-> unit,
     status |-> status, timestamp |-> ts, location |-> location,
     name |-> IF name = "" THEN "Sensor " \o sid ELSE name,
     reading_count |-> count, metadata |-> meta]

----------------------------------------------------------------------------
(* DataProcessor: src/data/data_processor.py *)

\* the processor's fields as one value, so that its methods are operators
Proc == [sensor_data |-> sensor_data, stats_cache |-> stats_cache,
         cache_expiry |-> cache_expiry, sensor_metadata |-> sensor_metadata,
         total_readings |-> total_readings, alerts |-> alerts,
         cache_hits |-> cache_hits, cache_misses |-> cache_misses]

SetProc(P) ==
    /\ sensor_data' = P.sensor_data
    /\ stats_cache' = P.stats_cache
    /\ cache_expiry' = P.cache_expiry
    /\ sensor_metadata' = P.sensor_metadata
    /\ total_readings' = P.total_readings
    /\ alerts' = P.alerts
    /\ cache_hits' = P.cache_hits
    /\ cache_misses' = P.cache_misses

\* DataProcessor.__init__; the hit and miss counters are attributes that
\* _calculate_cache_hit_ratio creates at 0 when they are absent
ProcInit == [sensor_data |-> EmptyDict, stats_cache |-> EmptyDict,
             cache_expiry |-> EmptyDict, sensor_metadata |-> EmptyDict,
             total_readings |-> 0, alerts |-> <<>>,
             cache_hits |-> 0, cache_misses |-> 0]

SetProcInit ==
    /\ sensor_data = ProcInit.sensor_data
    /\ stats_cache = ProcInit.stats_cache
    /\ cache_expiry = ProcInit.cache_expiry
    /\ sensor_metadata = ProcInit.sensor_metadata
    /\ total_readings = ProcInit.total_readings
    /\ alerts = ProcInit.alerts
    /\ cache_hits = ProcInit.cache_hits
    /\ cache_misses = ProcInit.cache_misses
    /\ data_lock = "free"

\* _initialize_alert_thresholds: sensor type -> optional high and low bound
alert_thresholds ==
    ("TemperatureSensor" :> [high_threshold |-> Some(28), low_threshold |-> Some(15)])
    @@ ("HumiditySensor" :> [high_threshold |-> Some(70), low_threshold |-> Some(30)])
    @@ ("LightSensor" :> [high_threshold |-> None, low_threshold |-> Some(10)])

\* mutant: a deque without maxlen, nothing is evicted
DequeAppend_NoEviction(d, x) == Append(d, x)

\* deque(maxlen = max_readings).append: the oldest entry leaves a full deque
DequeAppend(d, x) ==
    IF Len(d) >= MaxReadings THEN Append(Tail(d), x) ELSE Append(d, x)

\* self._sensor_data[sensor_id]: the defaultdict creates an empty deque
RingOf(P, sid) == IF sid \in DOMAIN P.sensor_data THEN P.sensor_data[sid] ELSE <<>>

\* _update_sensor_metadata, called after the reading was appended
update_sensor_metadata(P, sid, reading) ==
    LET base == IF sid \in DOMAIN P.sensor_metadata
                THEN P.sensor_metadata[sid]
                ELSE [first_reading |-> isoformat(reading.timestamp),
                      sensor_type |-> reading.sensor_type,
                      location |-> reading.location,
                      name |-> reading.name,
                      unit |-> reading.unit,
                      last_reading |-> isoformat(reading.timestamp),
                      total_readings |-> 0,
                      status |-> reading.status]
        upd == [base EXCEPT !.last_reading = isoformat(reading.timestamp),
                            !.total_readings = Len(P.sensor_data[sid]),
                            !.status = reading.status]
    IN  [P EXCEPT !.sensor_metadata = Put(@, sid, upd)]

\* an AlertEvent as _check_alerts builds it at time t
AlertEvent(reading, kind, threshold, t) ==
    [alert_id |-> <<reading.sensor_id, t>>,
     sensor_id |-> reading.sensor_id,
     alert_type |-> kind,
     level |-> "warning",
     message |-> <<reading.sensor_type, kind, reading.value, reading.unit>>,
     value |-> reading.value,
     threshold |-> threshold,
     timestamp |-> t,
     acknowledged |-> FALSE, acknowledged_by |-> "", acknowledged_at |-> None,
     resolved |-> FALSE, resolved_at |-> None]

\* mutant: the bounds themselves raise alerts (>= and <= for > and <)
check_alerts_Inclusive(reading, t) ==
    IF reading.sensor_type \notin DOMAIN alert_thresholds \/ ~is_numeric(reading)
    THEN <<>>
    ELSE LET th == alert_thresholds[reading.sensor_type]
             hi == IF th.high_threshold # None /\ reading.value >= th.high_threshold[1]
                   THEN <<AlertEvent(reading, "high_threshold", th.high_threshold[1], t)>>
                   ELSE <<>>
             lo == IF th.low_threshold # None /\ reading.value <= th.low_threshold[1]
                   THEN <<AlertEvent(reading, "low_threshold", th.low_threshold[1], t)>>
                   ELSE <<>>
         IN  hi \o lo

\* mutant: only readings of status active are evaluated
check_alerts_ActiveOnly(reading, t) ==
    IF reading.sensor_type \notin DOMAIN alert_thresholds \/ ~is_numeric(reading)
       \/ reading.status # "active"
    THEN <<>>
    ELSE LET th == alert_thresholds[reading.sensor_type]
             hi == IF th.high_threshold # None /\ reading.value > th.high_threshold[1]
                   THEN <<AlertEvent(reading, "high_threshold", th.high_threshold[1], t)>>
                   ELSE <<>>
             lo == IF th.low_threshold # None /\ reading.value < th.low_threshold[1]
                   THEN <<AlertEvent(reading, "low_threshold", th.low_threshold[1], t)>>
                   ELSE <<>>
         IN  hi \o lo

\* _check_alerts: the alerts one reading raises, high before low
check_alerts(reading, t) ==
    IF reading.sensor_type \notin DOMAIN alert_thresholds \/ ~is_numeric(reading)
    THEN <<>>
    ELSE LET th == alert_thresholds[reading.sensor_type]
             hi == IF th.high_threshold # None /\ reading.value > th.high_threshold[1]
                   THEN <<AlertEvent(reading, "high_threshold", th.high_threshold[1], t)>>
                   ELSE <<>>
             lo == IF th.low_threshold # None /\ reading.value < th.low_threshold[1]
                   THEN <<AlertEvent(reading, "low_threshold", th.low_threshold[1], t)>>
                   ELSE <<>>
         IN  hi \o lo

\* mutant: the cache entry survives a store or a clear
invalidate_cache_Kept(P, sid) == P

\* the cache entry of a sensor is dropped (store_reading, clear_sensor_data)
invalidate_cache(P, sid) ==
    IF sid \in DOMAIN P.stats_cache
    THEN [P EXCEPT !.stats_cache = Del(@, sid), !.cache_expiry = Del(@, sid)]
    ELSE P

\* store_reading at time t (the body under the lock; it returns True)
store_reading(P, reading, t) ==
    LET sid == reading.sensor_id
        P1 == [P EXCEPT !.sensor_data = Put(@, sid, DequeAppend(RingOf(P, sid), reading))]
        P2 == update_sensor_metadata(P1, sid, reading)
        P3 == invalidate_cache(P2, sid)
        P4 == [P3 EXCEPT !.total_readings = @ + 1]
    IN  [P4 EXCEPT !.alerts = @ \o check_alerts(reading, t)]

\* what is wrong with a reading object given to store_reading: nothing; a
\* sensor_id that cannot be a dict key; a timestamp that is not a datetime
\* (from_dict passes a number through); a value that is a numeric text
\* (float() accepts it, the comparison with a float bound does not)
Defects == {"none", "sensor_id", "timestamp", "value"}

\* mutant: store_reading without its try/except, the fault reaches the caller
store_outcome_Raises(P, reading, t, defect) ==
    LET sid == reading.sensor_id
        P1 == [P EXCEPT !.sensor_data = Put(@, sid, DequeAppend(RingOf(P, sid), reading))]
        P2 == update_sensor_metadata(P1, sid, reading)
        P3 == invalidate_cache(P2, sid)
        P4 == [P3 EXCEPT !.total_readings = @ + 1]
    IN  IF defect = "sensor_id" THEN [P |-> P, result |-> FALSE, raised |-> TRUE]
        ELSE IF defect = "timestamp" THEN [P |-> P1, result |-> FALSE, raised |-> TRUE]
        ELSE IF defect = "value" /\ reading.sensor_type \in DOMAIN alert_thresholds
        THEN [P |-> P4, result |-> FALSE, raised |-> TRUE]
        ELSE [P |-> store_reading(P, reading, t), result |-> TRUE, raised |-> FALSE]

\* store_reading with its try/except: the state a call leaves and the value
\* it returns.  The lookup of the ring raises for a sensor_id that is no
\* dict key; isoformat() in _update_sensor_metadata raises, after the append,
\* for a timestamp that is no datetime; the comparison in _check_alerts
\* raises, after the counter was incremented, for a numeric text of a type
\* that has thresholds.  "except Exception" returns False.
store_outcome(P, reading, t, defect) ==
    LET sid == reading.sensor_id
        P1 == [P EXCEPT !.sensor_data = Put(@, sid, DequeAppend(RingOf(P, sid), reading))]
        P2 == update_sensor_metadata(P1, sid, reading)
        P3 == invalidate_cache(P2, sid)
        P4 == [P3 EXCEPT !.total_readings = @ + 1]
    IN  IF defect = "sensor_id" THEN [P |-> P, result |-> FALSE, raised |-> FALSE]
        ELSE IF defect = "timestamp" THEN [P |-> P1, result |-> FALSE, raised |-> FALSE]
        ELSE IF defect = "value" /\ reading.sensor_type \in DOMAIN alert_thresholds
        THEN [P |-> P4, result |-> FALSE, raised |-> FALSE]
        ELSE [P |-> store_reading(P, reading, t), result |-> TRUE, raised |-> FALSE]

\* mutant: the values of all readings, whatever their status
ActiveValues_All(readings) == [i \in 1..Len(readings) |-> readings[i].value]

\* the values of the active, numeric readings of a ring, oldest first
RECURSIVE ActiveValues(_)
ActiveValues(readings) ==
    IF readings = <<>> THEN <<>>
    ELSE LET r == Head(readings)
         IN  IF r.status = "active" /\ is_numeric(r)
             THEN <<r.value>> \o ActiveValues(Tail(readings))
             ELSE ActiveValues(Tail(readings))

\* statistics.median in hundredths
Median2(values) ==
    LET s == Sorted(values)
        n == Len(s)
    IN  IF n % 2 = 1 THEN 100 * s[(n + 1) \div 2]
        ELSE Round2(s[n \div 2] + s[n \div 2 + 1], 2)

\* statistics.variance (sample variance) as a fraction num / den, for n > 1
VarianceNum(values) ==
    LET n == Len(values)
        sq == [i \in 1..n |-> values[i] * values[i]]
    IN  n * SumSeq(sq) - SumSeq(values) * SumSeq(values)
VarianceDen(values) == Len(values) * (Len(values) - 1)

\* round(sqrt(num / den), 2) in hundredths
SqrtRound2(num, den) ==
    LET k == ISqrt((10000 * num) \div den)   \* floor of 100 * sqrt
    IN  \* k + 1/2 <= 100 * sqrt(num/den)  iff  (2k+1)^2 * den <= 40000 * num
        IF (2 * k + 1) * (2 * k + 1) * den <= 40000 * num THEN k + 1 ELSE k

\* the trend of get_sensor_statistics ("no trend" with fewer than five
\* values): the mean of the last five values against the mean of
\* values[-10:-5], which is taken only when there are ten values and is the
\* recent mean itself otherwise; a > b * 1.05 and a < b * 0.95 on the sums
trend_of(values) ==
    LET n == Len(values)
        recent == SumSeq(SubSeq(values, n - 4, n))
        older == IF n >= 10 THEN SumSeq(SubSeq(values, n - 9, n - 5)) ELSE recent
    IN  IF n < 5 THEN "no trend"
        ELSE IF 100 * recent > 105 * older THEN "increasing"
        ELSE IF 100 * recent < 95 * older THEN "decreasing"
        ELSE "stable"

\* the statistics get_sensor_statistics computes over a ring at time t
\* (average, median, std_deviation and variance in hundredths)
compute_statistics(sid, readings, t) ==
    LET values == ActiveValues(readings)
        n == Len(values)
    IN  [sensor_id |-> sid,
         total_readings |-> Len(readings),
         active_readings |-> n,
         min_value |-> SeqMin(values),
         max_value |-> SeqMax(values),
         average |-> Round2(SumSeq(values), n),
         median |-> Median2(values),
         latest_value |-> values[n],
         unit |-> readings[Len(readings)].unit,
         calculation_time |-> isoformat(t),
         trend |-> trend_of(values),
         std_deviation |-> IF n > 1
                           THEN Some(SqrtRound2(VarianceNum(values), VarianceDen(values)))
                           ELSE None,
         variance |-> IF n > 1
                      THEN Some(Round2(VarianceNum(values), VarianceDen(values)))
                      ELSE None]

\* _is_cache_valid at time t
is_cache_valid(P, sid, t) ==
    /\ sid \in DOMAIN P.stats_cache
    /\ sid \in DOMAIN P.cache_expiry
    /\ t < P.cache_expiry[sid]

\* mutant: a cache hit and a recomputation are counted
get_sensor_statistics_Counting(P, sid, use_cache, t) ==
    IF use_cache /\ is_cache_valid(P, sid, t)
    THEN [P |-> [P EXCEPT !.cache_hits = @ + 1],
          result |-> Some(P.stats_cache[sid]), hit |-> TRUE]
    ELSE IF sid \notin DOMAIN P.sensor_data \/ P.sensor_data[sid] = <<>>
    THEN [P |-> P, result |-> None, hit |-> FALSE]
    ELSE IF ActiveValues(P.sensor_data[sid]) = <<>>
    THEN [P |-> P, result |-> None, hit |-> FALSE]
    ELSE LET stats == compute_statistics(sid, P.sensor_data[sid], t)
         IN  [P |-> [P EXCEPT !.stats_cache = Put(@, sid, stats),
                              !.cache_expiry = Put(@, sid, t + CacheDuration),
                              !.cache_misses = @ + 1],
              result |-> Some(stats), hit |-> FALSE]

\* get_sensor_statistics at time t: the new processor state, the result
\* (None is the empty dict) and whether the cache served it
get_sensor_statistics(P, sid, use_cache, t) ==
    IF use_cache /\ is_cache_valid(P, sid, t)
    THEN [P |-> P, result |-> Some(P.stats_cache[sid]), hit |-> TRUE]
    ELSE IF sid \notin DOMAIN P.sensor_data \/ P.sensor_data[sid] = <<>>
    THEN [P |-> P, result |-> None, hit |-> FALSE]
    ELSE IF ActiveValues(P.sensor_data[sid]) = <<>>
    THEN [P |-> P, result |-> None, hit |-> FALSE]
    ELSE LET stats == compute_statistics(sid, P.sensor_data[sid], t)
         IN  [P |-> [P EXCEPT !.stats_cache = Put(@, sid, stats),
                              !.cache_expiry = Put(@, sid, t + CacheDuration)],
              result |-> Some(stats), hit |-> FALSE]

\* mutant: clearing one sensor also drops the alerts of that sensor
clear_sensor_data_DropsAlerts(P, sidOpt) ==
    IF sidOpt # None
    THEN LET sid == sidOpt[1]
         IN  IF sid \in DOMAIN P.sensor_data
             THEN LET P1 == [P EXCEPT !.sensor_data = Put(@, sid, <<>>)]
                      P2 == invalidate_cache(P1, sid)
                      P3 == [P2 EXCEPT !.sensor_metadata = Del(@, sid)]
                      other(x) == x.sensor_id # sid
                  IN  [P3 EXCEPT !.alerts = SelectSeq(P.alerts, other)]
             ELSE P
    ELSE [ProcInit EXCEPT !.cache_hits = P.cache_hits, !.cache_misses = P.cache_misses]

\* clear_sensor_data(sensor_id): one sensor (Some(id)) or everything (None)
clear_sensor_data(P, sidOpt) ==
    IF sidOpt # None
    THEN LET sid == sidOpt[1]
         IN  IF sid \in DOMAIN P.sensor_data
             THEN LET P1 == [P EXCEPT !.sensor_data = Put(@, sid, <<>>)]
                      P2 == invalidate_cache(P1, sid)
                  IN  [P2 EXCEPT !.sensor_metadata = Del(@, sid)]
             ELSE P
    ELSE [ProcInit EXCEPT !.cache_hits = P.cache_hits, !.cache_misses = P.cache_misses]



\* SensorReading.to_dict: the enums by value, the timestamp as text
to_dict(reading) == [reading EXCEPT !.timestamp = isoformat(@)]

\* datetime.fromisoformat
fromisoformat(text) == text.iso

\* dict.get(key, default)
Get(d, key, default) == IF key \in DOMAIN d THEN d[key] ELSE default

\* float(x): the values of the model stand for floats
to_float(x) == x

\* SensorReading.__post_init__: a type or status given as text becomes the
\* enum member of that value, or the default when there is none
post_init(reading) ==
    [reading EXCEPT
       !.sensor_type = IF @ \in SensorType THEN @ ELSE "TemperatureSensor",
       !.status = IF @ \in SensorStatus THEN @ ELSE "active"]

\* mutant: the reading count of the dictionary is not taken over
from_dict_NoCount(data) ==
    post_init(SensorReading(data.sensor_id, data.sensor_type, to_float(data.value),
                            data.unit, Get(data, "status", "active"),
                            fromisoformat(data.timestamp), Get(data, "location", ""),
                            Get(data, "name", ""), 0, Get(data, "metadata", EmptyDict)))

\* SensorReading.from_dict, for a dictionary that has a timestamp text
from_dict(data) ==
    post_init(SensorReading(data.sensor_id, data.sensor_type, to_float(data.value),
                            data.unit, Get(data, "status", "active"),
                            fromisoformat(data.timestamp), Get(data, "location", ""),
                            Get(data, "name", ""), Get(data, "reading_count", 0),
                            Get(data, "metadata", EmptyDict)))

\* json.dumps and json.loads, on dictionaries of texts, numbers, None and
\* such dictionaries: the text holds the same structure
json_dumps(d) == [json |-> d]
json_loads(text) == text.json

\* SensorReading.to_json and from_json
to_json(reading) == json_dumps(to_dict(reading))
from_json(text) == from_dict(json_loads(text))

\* a Python slice seq[:limit]
SliceTo(seq, limit) ==
    IF limit >= 0 THEN SubSeq(seq, 1, IF limit < Len(seq) THEN limit ELSE Len(seq))
    ELSE SubSeq(seq, 1, IF Len(seq) + limit > 0 THEN Len(seq) + limit ELSE 0)

\* get_sensor_history(sensor_id, limit): most recent first; a limit that is
\* None (here 0, which Python treats alike) leaves the list whole
get_sensor_history(P, sid, limit) ==
    IF sid \notin DOMAIN P.sensor_data THEN <<>>
    ELSE LET ring == P.sensor_data[sid]
             reading_dicts == [i \in 1..Len(ring) |-> to_dict(Reverse(ring)[i])]
         IN  IF limit # 0 THEN SliceTo(reading_dicts, limit) ELSE reading_dicts

\* the scan of get_recent_readings over the ring from its newest reading
\* backward: it stops at the first reading older than the cutoff
RECURSIVE recent_scan(_, _)
recent_scan(ring, cutoff) ==
    IF ring = <<>> THEN <<>>
    ELSE LET reading == ring[Len(ring)]
         IN  IF reading.timestamp >= cutoff
             THEN <<reading>> \o recent_scan(SubSeq(ring, 1, Len(ring) - 1), cutoff)
             ELSE <<>>

\* get_recent_readings(sensor_id, minutes) at time t
get_recent_readings(P, sid, minutes, t) ==
    IF sid \notin DOMAIN P.sensor_data THEN <<>>
    ELSE recent_scan(P.sensor_data[sid], t - 60 * minutes)

\* get_all_sensor_stats: get_sensor_statistics for the ids in order
RECURSIVE all_stats_from(_, _, _, _)
all_stats_from(P, ids, acc, t) ==
    IF ids = <<>> THEN [P |-> P, result |-> acc]
    ELSE LET res == get_sensor_statistics(P, Head(ids), TRUE, t)
         IN  all_stats_from(res.P, Tail(ids), Put(acc, Head(ids), res.result), t)

\* the keys of a dict as a sequence (the order does not matter to the callers)
RECURSIVE KeySeq(_)
KeySeq(keys) ==
    IF keys = {} THEN <<>>
    ELSE LET k == CHOOSE x \in keys : TRUE IN <<k>> \o KeySeq(keys \ {k})

get_all_sensor_stats(P, t) == all_stats_from(P, KeySeq(DOMAIN P.sensor_data), EmptyDict, t)

\* AlertEvent.is_active
alert_is_active(alert) == ~alert.resolved

\* AlertEvent.acknowledge(user) at time t
acknowledge(alert, user, t) ==
    [alert EXCEPT !.acknowledged = TRUE, !.acknowledged_by = user,
                  !.acknowledged_at = Some(t)]

\* mutant: the flag is set, the time of the resolution is not
resolve_FlagOnly(alert, t) == [alert EXCEPT !.resolved = TRUE]

\* AlertEvent.resolve() at time t
resolve(alert, t) == [alert EXCEPT !.resolved = TRUE, !.resolved_at = Some(t)]

RECURSIVE FilterSeq(_, _)
FilterSeq(seq, keep) ==
    IF seq = <<>> THEN <<>>
    ELSE (IF Head(seq) \in keep THEN <<Head(seq)>> ELSE <<>>) \o FilterSeq(Tail(seq), keep)

\* get_alerts(sensor_id, active_only, minutes) at time t; an empty sensor id
\* and minutes = 0 are no filter
get_alerts(P, sid, active_only, minutes, t) ==
    LET all == {P.alerts[i] : i \in 1..Len(P.alerts)}
        keep == {a \in all :
                    /\ sid # "" => a.sensor_id = sid
                    /\ active_only => alert_is_active(a)
                    /\ minutes # 0 => a.timestamp >= t - 60 * minutes}
    IN  FilterSeq(P.alerts, keep)

\* _calculate_cache_hit_ratio, in hundredths
calculate_cache_hit_ratio(P) ==
    LET total_requests == P.cache_hits + P.cache_misses
    IN  IF total_requests = 0 THEN 0 ELSE Round2(P.cache_hits, total_requests)

\* get_system_info at time t (the processor was created at time 0)
get_system_info(P, t) ==
    LET total_items == SumSeq([i \in 1..Len(KeySeq(DOMAIN P.sensor_data)) |->
                                  Len(P.sensor_data[KeySeq(DOMAIN P.sensor_data)[i]])])
    IN  [total_sensors |-> Cardinality(DOMAIN P.sensor_data),
         active_sensors |-> Cardinality({k \in DOMAIN P.sensor_metadata :
                                            P.sensor_metadata[k].total_readings > 0}),
         total_readings |-> P.total_readings,
         total_alerts |-> Len(P.alerts),
         active_alerts |-> Len(get_alerts(P, "", TRUE, 0, t)),
         uptime_seconds |-> t,
         memory_usage_mb |-> Round2(total_items * 500, 1024 * 1024),
         cache_hit_ratio |-> calculate_cache_hit_ratio(P),
         sensors |-> DOMAIN P.sensor_metadata,
         processing_rate |-> IF t > 0 THEN Round2(P.total_readings, t) ELSE 0]

----------------------------------------------------------------------------
(* WebSocketServer: src/websocket/websocket_app.py *)

\* the sensors _initialize_sensors registers, in the order of the dict
SensorOrder == <<"temperature", "humidity", "motion">>
Sensors == {SensorOrder[i] : i \in 1..Len(SensorOrder)}

\* the potential client connections (websocket objects)
Clients == {"c1", "c2"}

\* sensor_data_loop outside a broadcast: not started, or asleep between ticks
GenIdle(pc) == [pc |-> pc, idx |-> 0, msg |-> None, snapshot |-> {}, visited |-> {},
                failed |-> {}, concurrent |-> FALSE]

\* a connection handler that is not inside _broadcast_sensor_list
NoBroadcast == [todo |-> {}, targets |-> {}, sensor_id |-> "", new_status |-> FALSE,
                sent |-> {}]

\* WebSocketServer.__init__
SrvInit ==
    /\ connected_clients = {}
    /\ client_count = 0
    /\ is_active = [s \in Sensors |-> TRUE]
    /\ reading_count = [s \in Sensors |-> 0]
    /\ is_running = FALSE
    /\ conn = [c \in Clients |-> "none"]
    /\ hpc = [c \in Clients |-> "new"]
    /\ hloc = [c \in Clients |-> NoBroadcast]
    /\ gen = GenIdle("notstarted")
    /\ outbox = [c \in Clients |-> <<>>]
    /\ tick = [n |-> 0, bcasts |-> <<>>]
    /\ unregistered = {}

----------------------------------------------------------------------------
(* The processor driven directly: store, statistics, clear, passing time *)

\* sensor type, unit, location and name of the readings given to the processor
TypeOf(sid) == CASE sid = "temperature" -> "TemperatureSensor"
                 [] sid = "humidity" -> "HumiditySensor"
                 [] sid = "motion" -> "MotionSensor"
                 [] OTHER -> "LightSensor"
UnitOfType(type) == CASE type = "TemperatureSensor" -> "C"
                      [] type = "HumiditySensor" -> "%"
                      [] type = "MotionSensor" -> "detected"
                      [] type = "LightSensor" -> "lux"
                      [] OTHER -> "unit"
LocationOf(sid) == IF sid = "motion" THEN "Front Door" ELSE "Living Room"

MkReading(sid, type, value, status, t) ==
    SensorReading(sid, type, value, UnitOfType(type), status, t,
                  LocationOf(sid), "", 0, EmptyDict)

\* readings stored in the processor behaviours: three temperatures around the
\* thresholds, a failed temperature read, and a motion detection
ProcReadings(t) ==
    {MkReading("temperature", "TemperatureSensor", v, "active", t) : v \in {10, 20, 30}}
    \cup {MkReading("temperature", "TemperatureSensor", 0, "error", t),
          MkReading("motion", "MotionSensor", 1, "active", t)}

ProcIds == {"temperature", "motion"}

\* readings stored in the alert behaviours: every type, values on, between
\* and beyond the thresholds
AlertValues == {5, 10, 15, 20, 28, 30, 70, 75}
AlertReadings(t) ==
    {MkReading("s1", type, v, "active", t) : type \in SensorType, v \in AlertValues}
    \cup {MkReading("s1", type, 0, status, t) :
             type \in SensorType, status \in {"error", "inactive"}}

NoOp == [kind |-> "init"]

\* no export_data call, and no sensor object, in the behaviours that have none
NoCall == [pc |-> "idle"]
NoSensor == [kind |-> "none"]
ExportIdle == export_call = NoCall
StatsIdle == stats_call = NoCall
SensorIdle == sensor = NoSensor /\ sensor_hist = NoOp

HistInit(stores, queries) ==
    /\ allStored = EmptyDict
    /\ op = NoOp
    /\ statPrev = EmptyDict
    /\ budget = [stores |-> stores, queries |-> queries, ticks |-> 0, cmds |-> 0]

\* a mutation of sensor sid is noted in the record of its last statistics call
NoteMutation(sp, sid, what) ==
    IF sid \in DOMAIN sp THEN [sp EXCEPT ![sid].since = what] ELSE sp

\* store_reading(reading)
ProcStore(reading) ==
    /\ budget.stores > 0
    /\ SetProc(store_reading(Proc, reading, now))
    /\ allStored' = Put(allStored, reading.sensor_id,
                        Append(IF reading.sensor_id \in DOMAIN allStored
                               THEN allStored[reading.sensor_id] ELSE <<>>, reading))
    /\ op' = [kind |-> "store", reading |-> reading, alerts_before |-> Len(alerts),
              result |-> TRUE]
    /\ statPrev' = NoteMutation(statPrev, reading.sensor_id, "store")
    /\ budget' = [budget EXCEPT !.stores = @ - 1]
    /\ UNCHANGED <<now, extVars, srvVars>>

\* get_sensor_statistics(sensor_id, use_cache)
ProcStatistics(sid, use_cache) ==
    /\ budget.queries > 0
    /\ LET res == get_sensor_statistics(Proc, sid, use_cache, now)
       IN  /\ SetProc(res.P)
           /\ op' = [kind |-> "stats", sensor_id |-> sid, use_cache |-> use_cache,
                     result |-> res.result, hit |-> res.hit, time |-> now,
                     prev |-> IF sid \in DOMAIN statPrev THEN Some(statPrev[sid]) ELSE None]
           /\ statPrev' = Put(statPrev, sid,
                              [time |-> now, result |-> res.result,
                               use_cache |-> use_cache, since |-> "nothing"])
    /\ budget' = [budget EXCEPT !.queries = @ - 1]
    /\ UNCHANGED <<now, extVars, srvVars, allStored>>

\* clear_sensor_data(sensor_id) and clear_sensor_data()
ProcClear(sidOpt) ==
    /\ budget.queries > 0
    /\ SetProc(clear_sensor_data(Proc, sidOpt))
    /\ allStored' = IF sidOpt = None THEN EmptyDict
                    ELSE IF sidOpt[1] \in DOMAIN allStored
                    THEN Put(allStored, sidOpt[1], <<>>) ELSE allStored
    /\ op' = [kind |-> "clear", sensor_id |-> sidOpt]
    /\ statPrev' = IF sidOpt = None
                   THEN [s \in DOMAIN statPrev |-> [statPrev[s] EXCEPT !.since = "clear"]]
                   ELSE NoteMutation(statPrev, sidOpt[1], "clear")
    /\ budget' = [budget EXCEPT !.queries = @ - 1]
    /\ UNCHANGED <<now, extVars, srvVars>>

\* the wall clock advances
AdvanceTime ==
    /\ now + TimeStep <= MaxTime
    /\ now' = now + TimeStep
    /\ UNCHANGED <<procVars, srvVars, histVars, extVars>>

\* ---- the history ring under stores and clears ----

InitRing ==
    /\ SetProcInit
    /\ ExportIdle
    /\ StatsIdle
    /\ SensorIdle
    /\ now = 0
    /\ SrvInit
    /\ HistInit(MaxStores, MaxClears)

NextRing ==
    \/ \E r \in ProcReadings(now) : ProcStore(r)
    \/ \E sidOpt \in {None} \cup {Some(s) : s \in ProcIds} : ProcClear(sidOpt)

SpecRing == InitRing /\ [][NextRing]_vars

\* ---- the statistics cache under stores, clears, queries and passing time ----

CacheReadings(t) ==
    {MkReading("temperature", "TemperatureSensor", v, "active", t) : v \in {20, 30}}
    \cup {MkReading("motion", "MotionSensor", 1, "active", t)}

InitCache ==
    /\ SetProcInit
    /\ ExportIdle
    /\ StatsIdle
    /\ SensorIdle
    /\ now = 0
    /\ SrvInit
    /\ HistInit(MaxCacheStores, MaxQueries)

NextCache ==
    \/ \E r \in CacheReadings(now) : ProcStore(r)
    \/ \E sid \in ProcIds, uc \in BOOLEAN : ProcStatistics(sid, uc)
    \/ ProcClear(Some("temperature"))
    \/ AdvanceTime

SpecCache == InitCache /\ [][NextCache]_vars

\* ---- alert evaluation over every sensor type and value class ----

InitAlert ==
    /\ SetProcInit
    /\ ExportIdle
    /\ StatsIdle
    /\ SensorIdle
    /\ now = 0
    /\ SrvInit
    /\ HistInit(MaxAlertStores, 0)

NextAlert == \E r \in AlertReadings(now) : ProcStore(r)

SpecAlert == InitAlert /\ [][NextAlert]_vars


\* ---- the queries of the processor under stores and clears ----

\* the sensor ids queried: the two that are stored and one that never is
QueryIds == ProcIds \cup {"ghost"}

\* the limits given to a history query: none, or 0..MaxLimit
Limits == {None} \cup {Some(n) : n \in 0..MaxLimit}

\* get_sensor_history(sensor_id, limit)
ProcHistory(sid, limitOpt) ==
    /\ budget.queries > 0
    /\ op' = [kind |-> "history", sensor_id |-> sid, limit |-> limitOpt,
              result |-> get_sensor_history(Proc, sid,
                                            IF limitOpt = None THEN 0 ELSE limitOpt[1])]
    /\ budget' = [budget EXCEPT !.queries = @ - 1]
    /\ UNCHANGED <<procVars, now, extVars, srvVars, allStored, statPrev>>

InitQuery ==
    /\ SetProcInit
    /\ ExportIdle
    /\ StatsIdle
    /\ SensorIdle
    /\ now = 0
    /\ SrvInit
    /\ HistInit(MaxStores, MaxQueries)

NextQuery ==
    \/ \E r \in ProcReadings(now) : ProcStore(r)
    \/ \E sid \in QueryIds, uc \in BOOLEAN : ProcStatistics(sid, uc)
    \/ \E sid \in QueryIds, limitOpt \in Limits : ProcHistory(sid, limitOpt)
    \/ \E sidOpt \in {None} \cup {Some(sid) : sid \in QueryIds} : ProcClear(sidOpt)

SpecQuery == InitQuery /\ [][NextQuery]_vars

\* ---- export_data, its lock, and a store by another thread ----

\* the formats given to export_data
Formats == {"json", "JSON", "csv", "CSV", "xml"}

\* str.lower() on the formats
Lower(fmt) == CASE fmt = "JSON" -> "json"
                [] fmt = "CSV" -> "csv"
                [] OTHER -> fmt

\* the sensor_data part of the export package: one sensor's readings (none
\* for an id without a ring) or every sensor's
export_sensor_data(P, sidOpt) ==
    IF sidOpt # None
    THEN IF sidOpt[1] \in DOMAIN P.sensor_data
         THEN [k \in {sidOpt[1]} |->
                 [i \in 1..Len(P.sensor_data[k]) |-> to_dict(P.sensor_data[k][i])]]
         ELSE EmptyDict
    ELSE [k \in DOMAIN P.sensor_data |->
            [i \in 1..Len(P.sensor_data[k]) |-> to_dict(P.sensor_data[k][i])]]

\* _export_as_csv: the header row and one row per reading
csv_rows(readings) ==
    [i \in 1..Len(readings) |->
       <<readings[i].sensor_id, readings[i].sensor_type, readings[i].timestamp,
         readings[i].value, readings[i].unit, readings[i].status,
         readings[i].location, readings[i].name, readings[i].reading_count>>]

RECURSIVE csv_body(_, _)
csv_body(data, ids) ==
    IF ids = <<>> THEN <<>>
    ELSE csv_rows(data[Head(ids)]) \o csv_body(data, Tail(ids))

export_as_csv(data) ==
    [header |-> <<"sensor_id", "sensor_type", "timestamp", "value", "unit",
                  "status", "location", "name", "reading_count">>,
     rows |-> csv_body(data, KeySeq(DOMAIN data))]

\* export_data enters "with self._data_lock": it waits while the lock is held
ExportAcquire(sidOpt, fmt, incl) ==
    /\ export_call.pc \in {"idle", "returned", "raised"}
    /\ budget.queries > 0
    /\ data_lock = "free"
    /\ data_lock' = "held"
    /\ export_call' = [pc |-> "locked", sensor_id |-> sidOpt, format |-> fmt,
                       include_metadata |-> incl, package |-> None, result |-> None]
    /\ budget' = [budget EXCEPT !.queries = @ - 1]
    /\ UNCHANGED <<procVars, now, srvVars, sensorVars, stats_call, allStored, op, statPrev>>

\* the body under the lock up to the call of get_system_info, or to the end
\* of the with block when no metadata is asked for
ExportBuild ==
    /\ export_call.pc = "locked"
    /\ LET package == [export_timestamp |-> isoformat(now),
                       sensor_data |-> export_sensor_data(Proc, export_call.sensor_id),
                       metadata |-> IF export_call.include_metadata
                                    THEN Some(sensor_metadata) ELSE None,
                       system_info |-> None]
       IN  IF export_call.include_metadata
           THEN /\ export_call' = [export_call EXCEPT !.pc = "sysinfo",
                                                      !.package = Some(package)]
                /\ UNCHANGED data_lock
           ELSE /\ export_call' = [export_call EXCEPT !.pc = "format",
                                                      !.package = Some(package)]
                /\ data_lock' = "free"
    /\ UNCHANGED <<procVars, now, srvVars, sensorVars, stats_call, histVars>>

\* get_system_info called by export_data enters "with self._data_lock": the
\* lock is a threading.Lock, so the call blocks while the lock is held, also
\* when the caller itself holds it
ExportSystemInfo ==
    /\ export_call.pc = "sysinfo"
    /\ IF data_lock = "free"
       THEN export_call' = [export_call EXCEPT
                              !.pc = "format",
                              !.package = Some([@[1] EXCEPT !.system_info =
                                                  Some(get_system_info(Proc, now))])]
       ELSE export_call' = [export_call EXCEPT !.pc = "blocked"]
    /\ UNCHANGED <<procVars, now, srvVars, sensorVars, stats_call, histVars, data_lock>>

\* after the with block: the package is serialized, or the format refused
ExportFormat ==
    /\ export_call.pc = "format"
    /\ export_call' =
         IF Lower(export_call.format) = "json"
         THEN [export_call EXCEPT !.pc = "returned",
                                  !.result = Some([json |-> export_call.package[1]])]
         ELSE IF Lower(export_call.format) = "csv"
         THEN [export_call EXCEPT
                 !.pc = "returned",
                 !.result = Some([csv |-> export_as_csv(export_call.package[1].sensor_data)])]
         ELSE [export_call EXCEPT !.pc = "raised"]
    /\ UNCHANGED <<procVars, now, srvVars, sensorVars, stats_call, histVars, data_lock>>

\* store_reading by another thread: it takes the lock for its whole body
LockedStore(reading) ==
    /\ data_lock = "free"
    /\ ProcStore(reading)

InitExport ==
    /\ SetProcInit
    /\ ExportIdle
    /\ StatsIdle
    /\ SensorIdle
    /\ now = 0
    /\ SrvInit
    /\ HistInit(MaxExportStores, MaxExports)

NextExport ==
    \/ \E r \in CacheReadings(now) : LockedStore(r)
    \/ \E sidOpt \in {None, Some("temperature"), Some("ghost")},
          fmt \in Formats, incl \in BOOLEAN : ExportAcquire(sidOpt, fmt, incl)
    \/ ExportBuild
    \/ ExportSystemInfo
    \/ ExportFormat

SpecExport == InitExport /\ [][NextExport]_vars

\* ---- a thread in get_sensor_statistics while another stores and clears ----

MaxThreadStores == 2
MaxThreadCalls == 3

\* clear_sensor_data by another thread: it takes the lock for its whole body
LockedClear(sidOpt) ==
    /\ data_lock = "free"
    /\ ProcClear(sidOpt)

\* the call begins: "if use_cache and self._is_cache_valid(sensor_id)" is
\* evaluated without the lock; pre is what a call serialized here returns
StatsCheck(sid, use_cache) ==
    /\ stats_call.pc \in {"idle", "returned", "faulted"}
    /\ budget.queries > 0
    /\ budget' = [budget EXCEPT !.queries = @ - 1]
    /\ stats_call' = [pc |-> IF use_cache /\ is_cache_valid(Proc, sid, now)
                             THEN "cached" ELSE "compute",
                      sensor_id |-> sid, use_cache |-> use_cache,
                      pre |-> get_sensor_statistics(Proc, sid, use_cache, now).result,
                      post |-> None, result |-> None]
    /\ UNCHANGED <<procVars, now, srvVars, sensorVars, allStored, op, statPrev,
                   data_lock, export_call>>

\* "return self._stats_cache[sensor_id].copy()", without the lock: KeyError
\* when the entry is gone
StatsReadCache ==
    /\ stats_call.pc = "cached"
    /\ stats_call' =
         IF stats_call.sensor_id \in DOMAIN stats_cache
         THEN [stats_call EXCEPT
                 !.pc = "returned",
                 !.result = Some(stats_cache[stats_call.sensor_id]),
                 !.post = get_sensor_statistics(Proc, stats_call.sensor_id,
                                                stats_call.use_cache, now).result]
         ELSE [stats_call EXCEPT !.pc = "faulted"]
    /\ UNCHANGED <<procVars, now, srvVars, sensorVars, histVars, data_lock, export_call>>

\* "with self._data_lock:" and the computation under the lock
StatsCompute ==
    /\ stats_call.pc = "compute"
    /\ data_lock = "free"
    /\ LET res == get_sensor_statistics(Proc, stats_call.sensor_id, FALSE, now)
       IN  /\ SetProc(res.P)
           /\ stats_call' = [stats_call EXCEPT !.pc = "returned", !.result = res.result,
                                               !.post = res.result]
    /\ UNCHANGED <<now, srvVars, sensorVars, histVars, data_lock, export_call>>

InitThreads ==
    /\ SetProcInit
    /\ ExportIdle
    /\ StatsIdle
    /\ SensorIdle
    /\ now = 0
    /\ SrvInit
    /\ HistInit(MaxThreadStores, MaxThreadCalls)

NextThreads ==
    \/ \E r \in CacheReadings(now) : LockedStore(r)
    \/ LockedClear(Some("temperature"))
    \/ \E sid \in ProcIds, uc \in BOOLEAN : StatsCheck(sid, uc)
    \/ StatsReadCache
    \/ StatsCompute

SpecThreads == InitThreads /\ [][NextThreads]_vars

\* ---- the trend of the statistics over rings of five to ten readings ----

MinTrendLen == 5
MaxTrendLen == 10

\* readings of the two temperatures 10 and 20, all active
TrendRings ==
    UNION {[1..n -> {MkReading("temperature", "TemperatureSensor", v, "active", 0) :
                       v \in {10, 20}}] : n \in MinTrendLen..MaxTrendLen}

\* get_sensor_statistics for the sensor, without the cache
TrendCall ==
    /\ op.kind = "ring"
    /\ LET res == get_sensor_statistics(Proc, "temperature", FALSE, now)
       IN  /\ SetProc(res.P)
           /\ op' = [kind |-> "stats", sensor_id |-> "temperature", use_cache |-> FALSE,
                     result |-> res.result, hit |-> res.hit, time |-> now, prev |-> None]
    /\ UNCHANGED <<now, extVars, srvVars, allStored, statPrev, budget>>

\* a processor whose ring of the sensor holds five to ten readings
InitTrend ==
    /\ \E ring \in TrendRings :
         /\ sensor_data = Put(EmptyDict, "temperature", ring)
         /\ allStored = Put(EmptyDict, "temperature", ring)
    /\ stats_cache = EmptyDict
    /\ cache_expiry = EmptyDict
    /\ sensor_metadata = EmptyDict
    /\ total_readings = 0
    /\ alerts = <<>>
    /\ cache_hits = 0
    /\ cache_misses = 0
    /\ data_lock = "free"
    /\ ExportIdle
    /\ StatsIdle
    /\ SensorIdle
    /\ now = 0
    /\ SrvInit
    /\ op = [kind |-> "ring"]
    /\ statPrev = EmptyDict
    /\ budget = [stores |-> 0, queries |-> 0, ticks |-> 0, cmds |-> 0]

NextTrend == TrendCall

SpecTrend == InitTrend /\ [][NextTrend]_vars

\* ---- get_recent_readings over readings stored with any timestamp ----

MaxRecentStores == 3
MaxRecentQueries == 1

\* the clock at construction, and the timestamps readings are stored with:
\* the present, one minute ago and two minutes ago
RecentStart == 120
RecentAges == {0, 60, 120}
RecentWindows == {1, 2}

\* readings of one temperature sensor, told apart by their reading_count
RecentReadings(t) ==
    {[MkReading("temperature", "TemperatureSensor", 20, "active", t - age)
        EXCEPT !.reading_count = n] : age \in RecentAges, n \in {1, 2}}

\* get_recent_readings(sensor_id, minutes)
ProcRecent(sid, minutes) ==
    /\ budget.queries > 0
    /\ op' = [kind |-> "recent", sensor_id |-> sid, minutes |-> minutes,
              time |-> now, known |-> sid \in DOMAIN sensor_data,
              ring |-> RingOf(Proc, sid),
              result |-> get_recent_readings(Proc, sid, minutes, now)]
    /\ budget' = [budget EXCEPT !.queries = @ - 1]
    /\ UNCHANGED <<procVars, now, extVars, srvVars, allStored, statPrev>>

\* a minute passes
AdvanceMinute ==
    /\ now = RecentStart
    /\ now' = now + 60
    /\ UNCHANGED <<procVars, srvVars, histVars, extVars>>

InitRecent ==
    /\ SetProcInit
    /\ ExportIdle
    /\ StatsIdle
    /\ SensorIdle
    /\ now = RecentStart
    /\ SrvInit
    /\ HistInit(MaxRecentStores, MaxRecentQueries)

NextRecent ==
    \/ \E r \in RecentReadings(now) : ProcStore(r)
    \/ \E sid \in {"temperature", "ghost"}, m \in RecentWindows : ProcRecent(sid, m)
    \/ AdvanceMinute

SpecRecent == InitRecent /\ [][NextRecent]_vars

\* ---- the alert list under stores, queries, exports and clears ----

MaxKeepStores == 3
MaxKeepQueries == 2

\* get_alerts(sensor_id, active_only, minutes)
ProcAlerts(sid, active_only, minutes) ==
    /\ budget.queries > 0
    /\ op' = [kind |-> "alerts", sensor_id |-> sid, active_only |-> active_only,
              minutes |-> minutes,
              result |-> get_alerts(Proc, sid, active_only, minutes, now)]
    /\ budget' = [budget EXCEPT !.queries = @ - 1]
    /\ UNCHANGED <<procVars, now, extVars, srvVars, allStored, statPrev>>

\* a query that takes the lock for its whole body
LockedQuery ==
    /\ data_lock = "free"
    /\ \/ \E uc \in BOOLEAN : ProcStatistics("temperature", uc)
       \/ \E limitOpt \in {None, Some(1)} : ProcHistory("temperature", limitOpt)

InitKeep ==
    /\ SetProcInit
    /\ ExportIdle
    /\ StatsIdle
    /\ SensorIdle
    /\ now = 0
    /\ SrvInit
    /\ HistInit(MaxKeepStores, MaxKeepQueries)

NextKeep ==
    \/ \E r \in ProcReadings(now) : LockedStore(r)
    \/ \E sidOpt \in {None} \cup {Some(s) : s \in ProcIds} : LockedClear(sidOpt)
    \/ LockedQuery
    \/ \E active_only \in BOOLEAN : ProcAlerts("temperature", active_only, 0)
    \/ \E sidOpt \in {None, Some("temperature")}, incl \in BOOLEAN :
          ExportAcquire(sidOpt, "json", incl)
    \/ ExportBuild
    \/ ExportSystemInfo
    \/ ExportFormat

SpecKeep == InitKeep /\ [][NextKeep]_vars

\* ---- store_reading given defective reading objects ----

MaxFaultStores == 3
MaxFaultQueries == 2

\* the readings given: temperatures with sound or defective id and timestamp,
\* humidities whose value is a number or a numeric text, motion detections
\* whose value is a number or a numeric text
FaultInputs(t) ==
    {[reading |-> MkReading("temperature", "TemperatureSensor", v, "active", t),
      defect |-> d] : v \in {30}, d \in {"none", "sensor_id", "timestamp"}}
    \cup {[reading |-> MkReading("humidity", "HumiditySensor", 50, "active", t),
           defect |-> d] : d \in {"none", "value"}}
    \cup {[reading |-> MkReading("motion", "MotionSensor", 1, "active", t),
           defect |-> d] : d \in {"none", "value"}}

\* store_reading(reading) for a reading object with the given defect
ProcStoreDefective(reading, defect) ==
    /\ budget.stores > 0
    /\ LET out == store_outcome(Proc, reading, now, defect)
       IN  /\ SetProc(out.P)
           /\ op' = [kind |-> "store", reading |-> reading, defect |-> defect,
                     alerts_before |-> Len(alerts), before |-> Proc,
                     result |-> out.result, raised |-> out.raised]
           /\ allStored' = IF out.result
                           THEN Put(allStored, reading.sensor_id,
                                    Append(IF reading.sensor_id \in DOMAIN allStored
                                           THEN allStored[reading.sensor_id] ELSE <<>>,
                                           reading))
                           ELSE allStored
    /\ statPrev' = NoteMutation(statPrev, reading.sensor_id, "store")
    /\ budget' = [budget EXCEPT !.stores = @ - 1]
    /\ UNCHANGED <<now, extVars, srvVars>>

InitFault ==
    /\ SetProcInit
    /\ ExportIdle
    /\ StatsIdle
    /\ SensorIdle
    /\ now = 0
    /\ SrvInit
    /\ HistInit(MaxFaultStores, MaxFaultQueries)

NextFault ==
    \/ \E x \in FaultInputs(now) : ProcStoreDefective(x.reading, x.defect)
    \/ \E uc \in BOOLEAN : ProcStatistics("temperature", uc)
    \/ ProcClear(Some("temperature"))
    \/ AdvanceTime

SpecFault == InitFault /\ [][NextFault]_vars

\* ---- get_system_info after statistics calls ----

MaxInfoStores == 2
MaxInfoQueries == 3

\* get_system_info()
ProcSystemInfo ==
    /\ budget.queries > 0
    /\ op' = [kind |-> "info", time |-> now, prev |-> op,
              result |-> get_system_info(Proc, now)]
    /\ budget' = [budget EXCEPT !.queries = @ - 1]
    /\ UNCHANGED <<procVars, now, extVars, srvVars, allStored, statPrev>>

InitInfo ==
    /\ SetProcInit
    /\ ExportIdle
    /\ StatsIdle
    /\ SensorIdle
    /\ now = 0
    /\ SrvInit
    /\ HistInit(MaxInfoStores, MaxInfoQueries)

NextInfo ==
    \/ \E r \in CacheReadings(now) : ProcStore(r)
    \/ \E sid \in ProcIds, uc \in BOOLEAN : ProcStatistics(sid, uc)
    \/ ProcSystemInfo
    \/ ProcClear(None)
    \/ AdvanceTime

SpecInfo == InitInfo /\ [][NextInfo]_vars

\* ---- alerts acknowledged and resolved by the callers of get_alerts ----

MaxResolveStores == 2
MaxResolveCalls == 3

\* readings of the temperature sensor above, below and within the bounds
ResolveReadings(t) ==
    {MkReading("temperature", "TemperatureSensor", v, "active", t) : v \in {10, 20, 30}}

\* get_alerts returns the alert objects of the list; a caller acknowledges one
AlertAcknowledge(i, user) ==
    /\ budget.queries > 0
    /\ i \in 1..Len(alerts)
    /\ alerts' = [alerts EXCEPT ![i] = acknowledge(@, user, now)]
    /\ op' = [kind |-> "acknowledge", index |-> i, time |-> now]
    /\ budget' = [budget EXCEPT !.queries = @ - 1]
    /\ UNCHANGED <<sensor_data, stats_cache, cache_expiry, sensor_metadata,
                   total_readings, cache_hits, cache_misses, now, extVars, srvVars,
                   allStored, statPrev>>

\* a caller resolves one of the alert objects
AlertResolve(i) ==
    /\ budget.queries > 0
    /\ i \in 1..Len(alerts)
    /\ alerts' = [alerts EXCEPT ![i] = resolve(@, now)]
    /\ op' = [kind |-> "resolve", index |-> i, time |-> now]
    /\ budget' = [budget EXCEPT !.queries = @ - 1]
    /\ UNCHANGED <<sensor_data, stats_cache, cache_expiry, sensor_metadata,
                   total_readings, cache_hits, cache_misses, now, extVars, srvVars,
                   allStored, statPrev>>

InitResolve ==
    /\ SetProcInit
    /\ ExportIdle
    /\ StatsIdle
    /\ SensorIdle
    /\ now = 0
    /\ SrvInit
    /\ HistInit(MaxResolveStores, MaxResolveCalls)

NextResolve ==
    \/ \E r \in ResolveReadings(now) : ProcStore(r)
    \/ \E i \in 1..MaxResolveStores, user \in {"system", "operator"} :
          AlertAcknowledge(i, user)
    \/ \E i \in 1..MaxResolveStores : AlertResolve(i)
    \/ ProcAlerts("", TRUE, 0)
    \/ AdvanceTime

SpecResolve == InitResolve /\ [][NextResolve]_vars

----------------------------------------------------------------------------
(* One sensor object: src/sensors/sensor_simulator.py *)

SensorKinds == {"temperature", "humidity", "motion", "light"}

KindType(kind) == CASE kind = "temperature" -> "TemperatureSensor"
                    [] kind = "humidity" -> "HumiditySensor"
                    [] kind = "motion" -> "MotionSensor"
                    [] OTHER -> "LightSensor"

\* math.sin of an angle given in half degrees, in thousandths (Bhaskara's
\* rational approximation of the sine, within 2 thousandths of it)
SinMilli(halfdeg) ==
    LET h == halfdeg % 720
        k == IF h < 360 THEN h ELSE h - 360
        p == k * (360 - k)
        v == (4000 * p) \div (162000 - p)
    IN  IF h < 360 THEN v ELSE -v

\* round(x, 1) of a value in thousandths
Round1(x) == 100 * RoundDiv(x, 100)

\* the fields TemperatureSensor.__init__ sets (temperatures in thousandths
\* of a degree, the cycle position in half degrees)
TemperatureGen(base_temp, variation, position) ==
    [base_temperature |-> base_temp, variation |-> variation,
     current_trend |-> 0, trend_duration |-> 0, daily_cycle_position |-> position]

\* the fields HumiditySensor.__init__ sets (humidity and the weather factor
\* in thousandths, the cycle position in half degrees)
HumidityGen(base_humidity, position, weather) ==
    [base_humidity |-> base_humidity, cycle_position |-> position,
     weather_factor |-> weather]

\* the state of the generation algorithm of each variant after __init__,
\* with the defaults of the constructors
InitialGen(kind) ==
    CASE kind = "temperature" -> TemperatureGen(22000, 5000, 0)
      [] kind = "humidity" -> HumidityGen(45000, 0, 1000)
      [] kind = "motion" ->
           [motion_state |-> FALSE, state_duration |-> 0, cooldown_timer |-> 0]
      [] OTHER -> [cloud_factor |-> 10]

\* BaseSensor.__init__ and the variant's __init__, at time t
create_sensor(kind, t) ==
    [kind |-> kind, sensor_id |-> kind, location |-> LocationOf(kind),
     name |-> "Sensor " \o kind, is_active |-> TRUE, last_reading_time |-> None,
     reading_count |-> 0,
     metadata |-> [created_at |-> isoformat(t), total_readings |-> 0,
                   last_error |-> None, calibration_status |-> "calibrated"],
     g |-> InitialGen(kind)]

\* values of random.randint(2, 8) and random.randint(3, 8) of the motion
\* generator: the least, the greatest and one between
MotionDurations == {2, 3, 8}
MotionCooldowns == {3, 4, 8}

\* what the random module hands to one _generate_reading call of each
\* variant (for temperature and humidity in thousandths: the ends of
\* uniform(-0.5, 0.5), uniform(-0.3, 0.3), uniform(-0.02, 0.02),
\* uniform(0.8, 1.2) and uniform(-3, 3))
Rnd(kind) ==
    CASE kind = "temperature" ->
           [trend : {-500, 500}, duration : {5}, noise : {300}, drift : {-20, 20}]
      [] kind = "humidity" ->
           [advance : {2, 6}, change : BOOLEAN, weather : {1200}, noise : {3000}]
      [] kind = "motion" ->
           [detect : BOOLEAN, duration : MotionDurations, cooldown : MotionCooldowns]
      [] OTHER -> [change : BOOLEAN, cloud : {3}, value : {0, 500}]

\* TemperatureSensor._generate_reading: the cycle advances, the trend is
\* renewed when its duration is used up, the sum of the components is
\* bounded by base +- variation, the base drifts, the value is rounded
generate_temperature(g, rnd) ==
    LET daily_variation == 3 * SinMilli(g.daily_cycle_position)
        renew == g.trend_duration <= 0
        trend == IF renew THEN rnd.trend ELSE g.current_trend
        duration == IF renew THEN rnd.duration ELSE g.trend_duration
        raw == g.base_temperature + daily_variation + trend + rnd.noise
        low == IF raw >= g.base_temperature - g.variation
               THEN raw ELSE g.base_temperature - g.variation
        temperature == IF low <= g.base_temperature + g.variation
                       THEN low ELSE g.base_temperature + g.variation
    IN  [g |-> [g EXCEPT !.current_trend = trend, !.trend_duration = duration - 1,
                         !.daily_cycle_position = @ + 1,
                         !.base_temperature = @ + rnd.drift],
         value |-> Round1(temperature)]

\* mutant: the humidity is not bounded by 20 and 80
generate_humidity_Unbounded(g, rnd) ==
    LET weather == IF rnd.change THEN rnd.weather ELSE g.weather_factor
    IN  [g |-> [g EXCEPT !.cycle_position = @ + rnd.advance,
                         !.weather_factor = weather],
         value |-> Round1(g.base_humidity + 8 * SinMilli(g.cycle_position)
                          + (weather - 1000) * 10 + rnd.noise)]

\* HumiditySensor._generate_reading: the cycle advances, the weather factor
\* changes now and then, the sum of the components is bounded by 20 and 80
\* and rounded
generate_humidity(g, rnd) ==
    LET cycle_component == 8 * SinMilli(g.cycle_position)
        weather == IF rnd.change THEN rnd.weather ELSE g.weather_factor
        weather_component == (weather - 1000) * 10
        raw == g.base_humidity + cycle_component + weather_component + rnd.noise
        high == IF raw <= 80000 THEN raw ELSE 80000
        humidity == IF high >= 20000 THEN high ELSE 20000
    IN  [g |-> [g EXCEPT !.cycle_position = @ + rnd.advance,
                         !.weather_factor = weather],
         value |-> Round1(humidity)]

\* MotionSensor._generate_reading
generate_motion(g, rnd) ==
    IF g.cooldown_timer > 0
    THEN [g |-> [g EXCEPT !.cooldown_timer = @ - 1], value |-> 0]
    ELSE IF g.motion_state /\ g.state_duration > 0
    THEN [g |-> IF g.state_duration - 1 = 0
                THEN [motion_state |-> FALSE, state_duration |-> 0,
                      cooldown_timer |-> rnd.cooldown]
                ELSE [g EXCEPT !.state_duration = @ - 1],
          value |-> 1]
    ELSE IF rnd.detect
    THEN [g |-> [g EXCEPT !.motion_state = TRUE, !.state_duration = rnd.duration],
          value |-> 1]
    ELSE [g |-> g, value |-> 0]

\* LightSensor._generate_reading
generate_light(g, rnd) ==
    [g |-> [cloud_factor |-> IF rnd.change THEN rnd.cloud ELSE g.cloud_factor],
     value |-> rnd.value]

\* _generate_reading of the sensor's variant
generate_reading(sn, rnd) ==
    CASE sn.kind = "temperature" -> generate_temperature(sn.g, rnd)
      [] sn.kind = "humidity" -> generate_humidity(sn.g, rnd)
      [] sn.kind = "motion" -> generate_motion(sn.g, rnd)
      [] OTHER -> generate_light(sn.g, rnd)

\* the reading read() builds from the sensor's fields
reading_of(sn, value, status, count, meta, t) ==
    SensorReading(sn.sensor_id, KindType(sn.kind), value, UnitOfType(KindType(sn.kind)),
                  status, t, sn.location, sn.name, count, meta)

\* mutant: an inactive read is counted
read_inactive_Counted(sn, t) ==
    [sensor |-> [sn EXCEPT !.reading_count = @ + 1],
     reading |-> reading_of(sn, 0, "inactive", sn.reading_count + 1, EmptyDict, t)]

\* read() of a sensor whose is_active flag is false
read_inactive(sn, t) ==
    [sensor |-> sn,
     reading |-> reading_of(sn, 0, "inactive", sn.reading_count, EmptyDict, t)]

\* mutant: the counter is incremented before the generation
read_error_Counted(sn, text, t) ==
    [sensor |-> [sn EXCEPT !.metadata.last_error = Some(text), !.reading_count = @ + 1],
     reading |-> reading_of(sn, 0, "error", sn.reading_count + 1, [error |-> text], t)]

\* read() when _generate_reading raised (on entry: the generation state is
\* as it was)
read_error(sn, text, t) ==
    [sensor |-> [sn EXCEPT !.metadata.last_error = Some(text)],
     reading |-> reading_of(sn, 0, "error", sn.reading_count, [error |-> text], t)]

\* mutant: a successful read leaves the counter alone
read_active_Uncounted(sn, made, t) ==
    [sensor |-> [sn EXCEPT !.g = made.g, !.last_reading_time = Some(t)],
     reading |-> reading_of(sn, made.value, "active", sn.reading_count, sn.metadata, t)]

\* read() when _generate_reading returned made
read_active(sn, made, t) ==
    LET meta == [sn.metadata EXCEPT !.total_readings = sn.reading_count + 1]
    IN  [sensor |-> [sn EXCEPT !.g = made.g, !.last_reading_time = Some(t),
                               !.reading_count = @ + 1, !.metadata = meta],
         reading |-> reading_of(sn, made.value, "active", sn.reading_count + 1, meta, t)]

\* reset_counter()
reset_counter(sn) == [sn EXCEPT !.reading_count = 0, !.metadata.total_readings = 0]

\* ---- the calls made on one sensor object ----

\* the history of a sensor object: its last call, its last two readings
\* with the number of resets before each, the calls left, the successful
\* reads counted, and for the motion variant the values the
\* generation ticks returned with the ticks on which a detection or a
\* cooldown began
SensorHistInit ==
    [kind |-> "init", reading |-> None, prev |-> None, fault |-> FALSE,
     resets |-> 0, reading_resets |-> 0, prev_resets |-> 0,
     successes |-> 0, since_reset |-> 0,
     left |-> [reads |-> MaxReads, toggles |-> MaxToggles, resets |-> MaxResets],
     outs |-> <<>>, events |-> <<>>]

\* what a generation tick of the motion variant shows: a detection began
\* (motion_state set, with its duration) or a cooldown began (with its length)
MotionEvents(before, after, tickNo) ==
    (IF ~before.motion_state /\ after.motion_state
     THEN <<[tick |-> tickNo, what |-> "detection", n |-> after.state_duration]>>
     ELSE <<>>)
    \o (IF after.cooldown_timer > before.cooldown_timer
        THEN <<[tick |-> tickNo, what |-> "cooldown", n |-> after.cooldown_timer]>>
        ELSE <<>>)

\* sensor.read(), with what the random module gives and whether the
\* generation raises
SensorRead ==
    /\ sensor.kind \in SensorKinds
    /\ sensor_hist.left.reads > 0
    /\ \E rnd \in Rnd(sensor.kind), fault \in BOOLEAN :
         LET made == generate_reading(sensor, rnd)
             res == IF ~sensor.is_active THEN read_inactive(sensor, now)
                    ELSE IF fault THEN read_error(sensor, "generation fault", now)
                    ELSE read_active(sensor, made, now)
             ticked == sensor.kind = "motion" /\ sensor.is_active /\ ~fault
             outs == IF ticked THEN Append(sensor_hist.outs, made.value)
                     ELSE sensor_hist.outs
         IN  /\ sensor' = res.sensor
             /\ sensor_hist' =
                  [sensor_hist EXCEPT
                     !.kind = "read",
                     !.reading = Some(res.reading),
                     !.prev = sensor_hist.reading,
                     !.fault = sensor.is_active /\ fault,
                     !.reading_resets = sensor_hist.resets,
                     !.prev_resets = sensor_hist.reading_resets,
                     !.successes = IF res.reading.status = "active" THEN @ + 1 ELSE @,
                     !.since_reset = IF res.reading.status = "active" THEN @ + 1 ELSE @,
                     !.left.reads = @ - 1,
                     !.outs = outs,
                     !.events = IF ticked
                                THEN @ \o MotionEvents(sensor.g, made.g, Len(outs))
                                ELSE @]
    /\ UNCHANGED <<procVars, now, srvVars, histVars, lockVars>>

\* "sensor.is_active = not sensor.is_active"
SensorToggle ==
    /\ sensor.kind \in SensorKinds
    /\ sensor_hist.left.toggles > 0
    /\ sensor' = [sensor EXCEPT !.is_active = ~@]
    /\ sensor_hist' = [sensor_hist EXCEPT !.kind = "toggle", !.left.toggles = @ - 1]
    /\ UNCHANGED <<procVars, now, srvVars, histVars, lockVars>>

\* sensor.reset_counter()
SensorReset ==
    /\ sensor.kind \in SensorKinds
    /\ sensor_hist.left.resets > 0
    /\ sensor' = reset_counter(sensor)
    /\ sensor_hist' = [sensor_hist EXCEPT !.kind = "reset", !.left.resets = @ - 1,
                                          !.since_reset = 0, !.resets = @ + 1]
    /\ UNCHANGED <<procVars, now, srvVars, histVars, lockVars>>

InitSensor ==
    /\ SetProcInit
    /\ ExportIdle
    /\ StatsIdle
    /\ now = 0
    /\ SrvInit
    /\ HistInit(0, 0)
    /\ sensor \in {create_sensor(kind, 0) : kind \in SensorKinds}
    /\ sensor_hist = SensorHistInit

NextSensor ==
    \/ SensorRead
    \/ SensorToggle
    \/ SensorReset

SpecSensor == InitSensor /\ [][NextSensor]_vars

\* ---- the generators of the temperature and humidity variants ----

MaxGenCalls == 3

\* base temperatures and variations handed to TemperatureSensor.__init__,
\* base humidities handed to HumiditySensor.__init__, and what __init__
\* draws: the cycle position (0, 90 and 270 degrees) and the weather factor
TempBases == {22000, 22040}
TempVariations == {250, 1000, 5000}
HumidityBases == {10000, 45000, 90000}
CyclePositions == {0, 180, 540}
WeatherFactors == {800, 1200}

\* what the random module hands to one _generate_reading call: the ends of
\* the ranges drawn from
GenRnd(kind) ==
    IF kind = "temperature"
    THEN [trend : {-500, 500}, duration : {5}, noise : {-300, 300}, drift : {-20, 20}]
    ELSE [advance : {2, 6}, change : BOOLEAN, weather : WeatherFactors,
          noise : {-3000, 3000}]

\* one _generate_reading call, recorded with the generation state before it
Generate ==
    /\ sensor.kind \in {"temperature", "humidity"}
    /\ sensor_hist.kind \in {"created", "generate"}
    /\ sensor_hist.left > 0
    /\ \E rnd \in GenRnd(sensor.kind) :
         LET made == generate_reading(sensor, rnd)
         IN  /\ sensor' = [sensor EXCEPT !.g = made.g]
             /\ sensor_hist' = [kind |-> "generate", value |-> made.value,
                                before |-> sensor.g, left |-> sensor_hist.left - 1]
    /\ UNCHANGED <<procVars, now, srvVars, histVars, lockVars>>

InitGen ==
    /\ SetProcInit
    /\ ExportIdle
    /\ StatsIdle
    /\ now = 0
    /\ SrvInit
    /\ HistInit(0, 0)
    /\ sensor \in
         {[create_sensor("temperature", 0) EXCEPT !.g = TemperatureGen(b, v, p)] :
            b \in TempBases, v \in TempVariations, p \in CyclePositions}
         \cup {[create_sensor("humidity", 0) EXCEPT !.g = HumidityGen(b, p, w)] :
                 b \in HumidityBases, p \in CyclePositions, w \in WeatherFactors}
    /\ sensor_hist = [kind |-> "created", value |-> 0, before |-> sensor.g,
                      left |-> MaxGenCalls]

NextGen == Generate

SpecGen == InitGen /\ [][NextGen]_vars

----------------------------------------------------------------------------
(* The server: connections, commands and the generation loop *)

NameOf(sid) == CASE sid = "temperature" -> "Living Room Temperature"
                 [] sid = "humidity" -> "Living Room Humidity"
                 [] sid = "motion" -> "Front Door Motion"
                 [] OTHER -> ""

\* the values the generators hand to read() in the server behaviours
GenValues(sid) == CASE sid = "temperature" -> {20, 30}
                    [] sid = "humidity" -> {45}
                    [] OTHER -> {0, 1}

\* BaseSensor.read with the generated value given: the reading and the
\* sensor's new _reading_count
read(sid, active, count, value, t) ==
    IF ~active
    THEN [reading |-> SensorReading(sid, TypeOf(sid), 0, UnitOfType(TypeOf(sid)),
                                    "inactive", t, LocationOf(sid), NameOf(sid), count,
                                    [total_readings |-> count]),
          count |-> count]
    ELSE [reading |-> SensorReading(sid, TypeOf(sid), value, UnitOfType(TypeOf(sid)),
                                    "active", t, LocationOf(sid), NameOf(sid), count + 1,
                                    [total_readings |-> count + 1]),
          count |-> count + 1]

\* the part of the server state that sends and unregistrations change
Srv == [cc |-> connected_clients, ob |-> outbox, un |-> unregistered]

SetSrv(S) ==
    /\ connected_clients' = S.cc
    /\ outbox' = S.ob
    /\ unregistered' = S.un

\* websocket.send: it succeeds or fails with another error on an open
\* connection, and raises ConnectionClosed on a closed one
SendOutcomes(c) == IF conn[c] = "open" THEN {"ok", "error"} ELSE {"closed"}

\* a send that succeeded puts the message on the client's side
deliver(S, c, msg) == [S EXCEPT !.ob[c] = Append(@, msg)]

\* unregister_client: connected_clients.discard(websocket)
unregister_client(S, c) == [S EXCEPT !.cc = @ \ {c}, !.un = @ \cup {c}]

\* the sensor_list message _send_sensor_list builds
sensor_list_message(act, rc, cc, t) ==
    [type |-> "sensor_list",
     sensors |-> [i \in 1..Len(SensorOrder) |->
                    [id |-> SensorOrder[i],
                     name |-> NameOf(SensorOrder[i]),
                     location |-> LocationOf(SensorOrder[i]),
                     sensor_type |-> TypeOf(SensorOrder[i]),
                     status |-> IF act[SensorOrder[i]] THEN "active" ELSE "inactive",
                     unit |-> UnitOfType(TypeOf(SensorOrder[i])),
                     reading_count |-> rc[SensorOrder[i]]]],
     timestamp |-> isoformat(t),
     server_info |-> [total_sensors |-> Len(SensorOrder),
                      connected_clients |-> Cardinality(cc)]]

\* _send_sensor_list(websocket) with the outcome of its send: a closed
\* connection unregisters the client, another error is only logged
send_sensor_list(S, c, act, rc, t, out) ==
    CASE out = "ok" -> deliver(S, c, sensor_list_message(act, rc, S.cc, t))
      [] out = "closed" -> unregister_client(S, c)
      [] OTHER -> S

\* the sensor_data message broadcast_sensor_data builds
sensor_data_message(reading, t) ==
    [type |-> "sensor_data", data |-> to_dict(reading), timestamp |-> isoformat(t)]

\* store_reading called by the server, noted in the history variables
StoreNoted(reading) ==
    /\ SetProc(store_reading(Proc, reading, now))
    /\ allStored' = Put(allStored, reading.sensor_id,
                        Append(IF reading.sensor_id \in DOMAIN allStored
                               THEN allStored[reading.sensor_id] ELSE <<>>, reading))
    /\ statPrev' = NoteMutation(statPrev, reading.sensor_id, "store")

\* ---- sensor_data_loop ----

Min(set) == CHOOSE x \in set : \A y \in set : x <= y

\* the sensors from position i on whose is_active flag is set
ActiveFrom(i) == {j \in i..Len(SensorOrder) : is_active[SensorOrder[j]]}

\* the log entry of one broadcast_sensor_data call
BcastEntry(sid, count, cc, returned) ==
    [sensor_id |-> sid, reading_count |-> count, clients |-> cc, failed |-> {},
     returned |-> returned, concurrent |-> FALSE, clients_after |-> cc]

\* with no client every remaining active sensor is read and its broadcast
\* returns at once
RECURSIVE ReturnedAtOnce(_)
ReturnedAtOnce(i) ==
    IF i > Len(SensorOrder) THEN <<>>
    ELSE (IF is_active[SensorOrder[i]]
          THEN <<BcastEntry(SensorOrder[i], reading_count[SensorOrder[i]] + 1, {}, "ok")>>
          ELSE <<>>) \o ReturnedAtOnce(i + 1)

\* the loop body from sensor position i on, with the live-client state S, up
\* to its next await: the first send of the next broadcast, or the sleep
\* that ends the tick
RunFrom(i, S, n, log) ==
    IF S.cc = {} \/ ActiveFrom(i) = {}
    THEN /\ reading_count' = [s \in Sensors |->
                                IF \E j \in ActiveFrom(i) : SensorOrder[j] = s
                                THEN reading_count[s] + 1 ELSE reading_count[s]]
         /\ tick' = [n |-> n, bcasts |-> log \o ReturnedAtOnce(i)]
         /\ gen' = GenIdle("sleep")
         /\ SetSrv(S)
         /\ UNCHANGED <<procVars, allStored, statPrev>>
    ELSE LET j == Min(ActiveFrom(i))
             sid == SensorOrder[j]
         IN  \E v \in GenValues(sid), c0 \in S.cc :
               \E out \in SendOutcomes(c0) :
                 LET rd == read(sid, TRUE, reading_count[sid], v, now)
                     msg == sensor_data_message(rd.reading, now)
                 IN  /\ reading_count' = [reading_count EXCEPT ![sid] = rd.count]
                     /\ StoreNoted(rd.reading)
                     /\ SetSrv(IF out = "ok" THEN deliver(S, c0, msg) ELSE S)
                     /\ gen' = [pc |-> "send", idx |-> j, msg |-> Some(msg),
                                snapshot |-> S.cc, visited |-> {c0},
                                failed |-> IF out = "ok" THEN {} ELSE {c0},
                                concurrent |-> FALSE]
                     /\ tick' = [n |-> n,
                                 bcasts |-> Append(log, BcastEntry(sid, rd.count, S.cc, "pending"))]

\* start(): the running flag is set and the loop task created
Start ==
    /\ ~is_running
    /\ gen.pc = "notstarted"
    /\ is_running' = TRUE
    /\ gen' = GenIdle("sleep")
    /\ UNCHANGED <<procVars, now, extVars, connected_clients, client_count, is_active,
                   reading_count, conn, hpc, hloc, outbox, tick, unregistered, histVars>>

\* the loop wakes up and runs a tick up to its first await
GenWake ==
    /\ gen.pc = "sleep"
    /\ is_running
    /\ budget.ticks > 0
    /\ budget' = [budget EXCEPT !.ticks = @ - 1]
    /\ RunFrom(1, Srv, tick.n + 1, <<>>)
    /\ UNCHANGED <<now, extVars, client_count, is_active, is_running, conn, hpc, hloc, op>>

\* the last entry of the tick log is closed
CloseEntry(log, returned, failed, concurrent, after) ==
    [log EXCEPT ![Len(log)] = [@ EXCEPT !.returned = returned, !.failed = failed,
                                        !.concurrent = concurrent,
                                        !.clients_after = after]]

\* mutant: the clients whose send failed stay registered
cleanup_disconnected_Skipped(S, failed) == S

\* "for client in disconnected_clients: await self.unregister_client(client)"
RECURSIVE cleanup_disconnected(_, _)
cleanup_disconnected(S, failed) ==
    IF failed = {} THEN S
    ELSE LET c == CHOOSE x \in failed : TRUE
         IN  cleanup_disconnected(unregister_client(S, c), failed \ {c})

\* mutant: a fault inside a tick ends the loop
caught_fault_Ends == GenIdle("exited")

\* "except Exception as e: ... await asyncio.sleep(1)" of sensor_data_loop:
\* the loop sleeps and goes on with its next "while self.is_running" test
caught_fault == GenIdle("sleep")

\* the loop resumes after a send of broadcast_sensor_data: the iteration over
\* the live-client set raises if the set changed size, else it sends to the
\* next client or ends, and the loop goes on to the next sensor
GenResume ==
    /\ gen.pc = "send"
    /\ LET changed == gen.concurrent \/ connected_clients # gen.snapshot
           must == (gen.snapshot \cap connected_clients) \ gen.visited
           may == (connected_clients \ gen.snapshot) \ gen.visited
       IN  IF Cardinality(connected_clients) # Cardinality(gen.snapshot)
           THEN \* RuntimeError, caught by sensor_data_loop: the tick is abandoned
                /\ gen' = caught_fault
                /\ tick' = [tick EXCEPT !.bcasts =
                               CloseEntry(@, "fault", gen.failed, TRUE, connected_clients)]
                /\ UNCHANGED <<procVars, allStored, statPrev, reading_count,
                               connected_clients, outbox, unregistered>>
           ELSE \/ \E c \in must \cup may :
                     \E out \in SendOutcomes(c) :
                       /\ SetSrv(IF out = "ok" THEN deliver(Srv, c, gen.msg[1]) ELSE Srv)
                       /\ gen' = [gen EXCEPT !.visited = @ \cup {c},
                                             !.failed = IF out = "ok" THEN @ ELSE @ \cup {c},
                                             !.concurrent = changed]
                       /\ UNCHANGED <<procVars, allStored, statPrev, reading_count, tick>>
                \/ /\ must = {}
                   /\ LET S1 == cleanup_disconnected(Srv, gen.failed)
                      IN  RunFrom(gen.idx + 1, S1, tick.n,
                                  CloseEntry(tick.bcasts, "ok", gen.failed, changed, S1.cc))
    /\ UNCHANGED <<now, extVars, client_count, is_active, is_running, conn, hpc, hloc, op, budget>>

\* ---- one connection: handle_client_connection ----

\* the transport accepts a connection and the handler task is created
Connect(c) ==
    /\ is_running
    /\ conn[c] = "none"
    /\ conn' = [conn EXCEPT ![c] = "open"]
    /\ hpc' = [hpc EXCEPT ![c] = "accepted"]
    /\ UNCHANGED <<procVars, now, extVars, connected_clients, client_count, is_active,
                   reading_count, is_running, hloc, gen, outbox, tick, unregistered,
                   histVars>>

\* the peer closes the connection (or the transport fails)
PeerClose(c) ==
    /\ conn[c] = "open"
    /\ conn' = [conn EXCEPT ![c] = "closed"]
    /\ UNCHANGED <<procVars, now, extVars, connected_clients, client_count, is_active,
                   reading_count, is_running, hpc, hloc, gen, outbox, tick, unregistered,
                   histVars>>

\* register_client: the client joins the set and is sent the roster
Register(c) ==
    /\ hpc[c] = "accepted"
    /\ \E out \in SendOutcomes(c) :
          SetSrv(send_sensor_list([Srv EXCEPT !.cc = @ \cup {c}], c,
                                  is_active, reading_count, now, out))
    /\ client_count' = client_count + 1
    /\ hpc' = [hpc EXCEPT ![c] = "loop"]
    /\ UNCHANGED <<procVars, now, extVars, is_active, reading_count, is_running, conn, hloc, gen,
                   tick, histVars>>

\* mutant: the handler ends without its finally clause
handler_finally_Missing(S, c) == S

\* the finally clause of handle_client_connection
handler_finally(S, c) == unregister_client(S, c)

\* the message loop of a handler ends (connection closed, transport error or
\* handler fault) and the handler unregisters its client
HandlerEnd(c) ==
    /\ hpc[c] = "loop"
    /\ conn[c] = "closed"
    /\ SetSrv(handler_finally(Srv, c))
    /\ hpc' = [hpc EXCEPT ![c] = "done"]
    /\ UNCHANGED <<procVars, now, extVars, client_count, is_active, reading_count, is_running,
                   conn, hloc, gen, tick, histVars>>

\* ---- handle_client_message ----

\* an inbound message: text that is not JSON, or a JSON object with its
\* command tag ("" when missing) and parameters (the code's defaults when missing)
Msg(command, sid) ==
    [json |-> TRUE, command |-> command, sensor_id |-> sid, limit |-> 50,
     minutes |-> 60, active_only |-> FALSE]
Malformed == [Msg("", "") EXCEPT !.json = FALSE]

KnownCommands == {"get_sensors", "get_history", "get_statistics", "toggle_sensor",
                  "get_system_info", "get_alerts"}

\* the messages the clients send in the server behaviours ("ghost" is no sensor)
ToggleMessages == {Msg("toggle_sensor", sid) : sid \in {"temperature", "ghost"}}
Messages ==
    {Malformed, Msg("", ""), Msg("reset", "temperature"), Msg("get_sensors", ""),
     Msg("get_history", "temperature"), Msg("get_history", "ghost"),
     [Msg("get_history", "temperature") EXCEPT !.limit = 1],
     Msg("get_statistics", ""), Msg("get_statistics", "temperature"),
     Msg("get_system_info", ""), Msg("get_alerts", "")}

\* mutant: a message without a known command is answered like get_sensors
dispatch_Default(m) ==
    IF ~m.json THEN "invalid_json"
    ELSE IF m.command \in KnownCommands THEN m.command ELSE "get_sensors"

\* the branch handle_client_message takes
dispatch(m) ==
    IF ~m.json THEN "invalid_json"
    ELSE IF m.command \in KnownCommands THEN m.command ELSE "unknown"

\* mutant: a response goes to every registered client
respond_ToAll(S, c, msg, out) ==
    IF out = "ok"
    THEN [S EXCEPT !.ob = [t \in Clients |-> IF t \in S.cc \cup {c}
                                             THEN Append(S.ob[t], msg) ELSE S.ob[t]]]
    ELSE S

\* "await websocket.send(json.dumps(response))" inside handle_client_message:
\* a failed send is caught and logged
respond(S, c, msg, out) == IF out = "ok" THEN deliver(S, c, msg) ELSE S

\* mutant: the history is sent without looking the sensor id up
handle_get_history_Unchecked(S, P, c, m, out) ==
    LET history == get_sensor_history(P, m.sensor_id, m.limit)
    IN  respond(S, c, [type |-> "sensor_history", sensor_id |-> m.sensor_id,
                       history |-> history, total_readings |-> Len(history)], out)

\* the get_history branch
handle_get_history(S, P, c, m, out) ==
    IF m.sensor_id \in Sensors
    THEN LET history == get_sensor_history(P, m.sensor_id, m.limit)
         IN  respond(S, c, [type |-> "sensor_history", sensor_id |-> m.sensor_id,
                            history |-> history, total_readings |-> Len(history)], out)
    ELSE S

\* get_sensor_statistics or get_all_sensor_stats, as the get_statistics branch
\* calls them
statistics_for(P, m, t) ==
    IF m.sensor_id # "" THEN get_sensor_statistics(P, m.sensor_id, TRUE, t)
    ELSE get_all_sensor_stats(P, t)

\* the system_info response: the processor's info and the connection counts
system_info_message(P, cc, count, t) ==
    [type |-> "system_info",
     info |-> [processor |-> get_system_info(P, t), server_uptime |-> isoformat(t),
               connected_clients |-> Cardinality(cc),
               total_client_connections |-> count]]

\* the alerts response
alerts_message(P, m, t) ==
    LET found == get_alerts(P, "", m.active_only, m.minutes, t)
    IN  [type |-> "alerts", alerts |-> found, count |-> Len(found)]

\* a command of one response (or none): every branch but toggle_sensor;
\* the outcome of its send is noted (it is sent in every branch that sends)
HandleMessage(c, m) ==
    /\ hpc[c] = "loop"
    /\ conn[c] # "none"
    /\ budget.cmds > 0
    /\ budget' = [budget EXCEPT !.cmds = @ - 1]
    /\ \E out \in SendOutcomes(c) :
         LET branch == dispatch(m)
             stats == statistics_for(Proc, m, now)
         IN  /\ op' = [kind |-> "cmd", seq |-> budget.cmds, client |-> c, msg |-> m,
                       out |-> out]
             /\ SetSrv(CASE branch = "get_sensors" ->
                               send_sensor_list(Srv, c, is_active, reading_count, now, out)
                         [] branch = "get_history" ->
                               handle_get_history(Srv, Proc, c, m, out)
                         [] branch = "get_statistics" ->
                               respond(Srv, c, [type |-> "statistics",
                                                sensor_id |-> m.sensor_id,
                                                statistics |-> stats.result], out)
                         [] branch = "get_system_info" ->
                               respond(Srv, c, system_info_message(Proc, connected_clients,
                                                                   client_count, now), out)
                         [] branch = "get_alerts" ->
                               respond(Srv, c, alerts_message(Proc, m, now), out)
                         [] OTHER -> Srv)
             /\ SetProc(IF branch = "get_statistics" THEN stats.P ELSE Proc)
    /\ UNCHANGED <<now, extVars, client_count, is_active, reading_count, is_running, conn, hpc,
                   hloc, gen, tick, allStored, statPrev>>

\* "sensor.is_active = not sensor.is_active"
toggle_flag(act, sid) == [act EXCEPT ![sid] = ~@]

\* mutant: the roster goes to the requester only
broadcast_targets_Requester(cc, c) == cc \cap {c}

\* _broadcast_sensor_list: the clients of list(self.connected_clients)
broadcast_targets(cc, c) == cc

\* the status of sensor sid in a roster
RosterStatus(roster, sid) ==
    LET i == CHOOSE k \in 1..Len(roster.sensors) : roster.sensors[k].id = sid
    IN  roster.sensors[i].status = "active"

\* one _send_sensor_list of a roster broadcast, as the handler's locals note it
SentNote(S, t, act, rc, sid, out) ==
    [client |-> t, out |-> out,
     shown |-> RosterStatus(sensor_list_message(act, rc, S.cc, now), sid)]

\* the toggle_sensor branch up to its first await
HandleToggle(c, m) ==
    /\ hpc[c] = "loop"
    /\ conn[c] # "none"
    /\ budget.cmds > 0
    /\ budget' = [budget EXCEPT !.cmds = @ - 1]
    /\ op' = [kind |-> "cmd", seq |-> budget.cmds, client |-> c, msg |-> m]
    /\ IF m.sensor_id \in Sensors
       THEN LET act == toggle_flag(is_active, m.sensor_id)
                targets == broadcast_targets(connected_clients, c)
            IN  /\ is_active' = act
                /\ IF targets = {}
                   THEN /\ hloc' = [hloc EXCEPT ![c] =
                                      [NoBroadcast EXCEPT !.sensor_id = m.sensor_id,
                                                          !.new_status = act[m.sensor_id]]]
                        /\ UNCHANGED <<connected_clients, outbox, unregistered, hpc>>
                   ELSE \E t \in targets :
                          \E out \in SendOutcomes(t) :
                            /\ SetSrv(send_sensor_list(Srv, t, act, reading_count, now, out))
                            /\ hloc' = [hloc EXCEPT ![c] =
                                          [todo |-> targets \ {t}, targets |-> targets,
                                           sensor_id |-> m.sensor_id,
                                           new_status |-> act[m.sensor_id],
                                           sent |-> {SentNote(Srv, t, act, reading_count,
                                                              m.sensor_id, out)}]]
                            /\ hpc' = [hpc EXCEPT ![c] = IF targets \ {t} = {} THEN "loop"
                                                         ELSE "toggle_bcast"]
       ELSE UNCHANGED <<is_active, connected_clients, outbox, unregistered, hpc, hloc>>
    /\ UNCHANGED <<procVars, now, extVars, client_count, reading_count, is_running, conn, gen,
                   tick, allStored, statPrev>>

\* _broadcast_sensor_list resumes after a send and sends the roster to the
\* next client of its list
ToggleSend(c) ==
    /\ hpc[c] = "toggle_bcast"
    /\ \E t \in hloc[c].todo :
         \E out \in SendOutcomes(t) :
           /\ SetSrv(send_sensor_list(Srv, t, is_active, reading_count, now, out))
           /\ hloc' = [hloc EXCEPT ![c].todo = @ \ {t},
                                   ![c].sent = @ \cup {SentNote(Srv, t, is_active,
                                                               reading_count,
                                                               hloc[c].sensor_id, out)}]
           /\ hpc' = [hpc EXCEPT ![c] = IF hloc[c].todo \ {t} = {} THEN "loop"
                                        ELSE "toggle_bcast"]
    /\ UNCHANGED <<procVars, now, extVars, client_count, is_active, reading_count, is_running,
                   conn, gen, tick, histVars>>

InitServer ==
    /\ SetProcInit
    /\ ExportIdle
    /\ StatsIdle
    /\ SensorIdle
    /\ now = 0
    /\ SrvInit
    /\ allStored = EmptyDict
    /\ op = NoOp
    /\ statPrev = EmptyDict
    /\ budget = [stores |-> 0, queries |-> 0, ticks |-> MaxTicks, cmds |-> MaxCmds]

\* the generation loop with clients that come and go
NextLoop ==
    \/ Start
    \/ GenWake
    \/ GenResume
    \/ \E c \in Clients : Connect(c)
    \/ \E c \in Clients : Register(c)
    \/ \E c \in Clients : PeerClose(c)
    \/ \E c \in Clients : HandlerEnd(c)

SpecLoop == InitServer /\ [][NextLoop]_vars

\* the generation loop with clients that connect and stay; the event loop
\* runs the loop task whenever it is ready
NextConnects ==
    \/ Start
    \/ GenWake
    \/ GenResume
    \/ \E c \in Clients : Connect(c)
    \/ \E c \in Clients : Register(c)

SpecConnects ==
    /\ InitServer
    /\ [][NextConnects]_vars
    /\ WF_vars(GenWake)

\* the message handlers of clients that come and go
NextCommands ==
    \/ Start
    \/ \E c \in Clients : Connect(c)
    \/ \E c \in Clients : Register(c)
    \/ \E c \in Clients : PeerClose(c)
    \/ \E c \in Clients : HandlerEnd(c)
    \/ \E c \in Clients, m \in Messages : HandleMessage(c, m)
    \/ \E c \in Clients, m \in ToggleMessages : HandleToggle(c, m)
    \/ \E c \in Clients : ToggleSend(c)

SpecCommands == InitServer /\ [][NextCommands]_vars

\* ---- stop() ----

MaxStopTicks == 1

\* stop() was called on a started server
Stopped == ~is_running /\ gen.pc # "notstarted"

\* a connection handler task exists and has not ended
HandlerLive(c) == hpc[c] \in {"accepted", "loop", "toggle_bcast"}

\* mutant: stop() clears the flag and closes no connection
Stop_FlagOnly ==
    /\ is_running
    /\ is_running' = FALSE
    /\ UNCHANGED <<procVars, now, extVars, connected_clients, client_count, is_active,
                   reading_count, conn, hpc, hloc, gen, outbox, tick, unregistered,
                   histVars>>

\* stop(): the running flag is cleared and server.close() closes the
\* listening socket and every open connection
Stop ==
    /\ is_running
    /\ is_running' = FALSE
    /\ conn' = [c \in Clients |-> IF conn[c] = "open" THEN "closed" ELSE conn[c]]
    /\ UNCHANGED <<procVars, now, extVars, connected_clients, client_count, is_active,
                   reading_count, hpc, hloc, gen, outbox, tick, unregistered, histVars>>

\* "while self.is_running": the loop wakes from its sleep, finds the flag
\* cleared and returns
GenExit ==
    /\ gen.pc = "sleep"
    /\ ~is_running
    /\ gen' = GenIdle("exited")
    /\ UNCHANGED <<procVars, now, extVars, connected_clients, client_count, is_active,
                   reading_count, is_running, conn, hpc, hloc, outbox, tick, unregistered,
                   histVars>>

\* the finally clause of start(): once wait_closed() has returned (the
\* server is closed and every handler has ended) the loop task is cancelled
\* at the await it is suspended in
GenCancel ==
    /\ Stopped
    /\ \A c \in Clients : ~HandlerLive(c)
    /\ gen.pc \in {"sleep", "send"}
    /\ gen' = GenIdle("exited")
    /\ UNCHANGED <<procVars, now, extVars, connected_clients, client_count, is_active,
                   reading_count, is_running, conn, hpc, hloc, outbox, tick, unregistered,
                   histVars>>

InitStop ==
    /\ SetProcInit
    /\ ExportIdle
    /\ StatsIdle
    /\ SensorIdle
    /\ now = 0
    /\ SrvInit
    /\ allStored = EmptyDict
    /\ op = NoOp
    /\ statPrev = EmptyDict
    /\ budget = [stores |-> 0, queries |-> 0, ticks |-> MaxStopTicks, cmds |-> 0]

\* the generation loop and clients that come and go, with a stop
NextStop ==
    \/ Start
    \/ Stop
    \/ GenWake
    \/ GenResume
    \/ GenExit
    \/ GenCancel
    \/ \E c \in Clients : Connect(c)
    \/ \E c \in Clients : Register(c)
    \/ \E c \in Clients : PeerClose(c)
    \/ \E c \in Clients : HandlerEnd(c)

\* the event loop runs every task that is ready: each connection handler
\* takes its next step, the loop task returns from its sleep, and start()
\* goes on to its finally clause when wait_closed() has returned
SpecStop ==
    /\ InitStop
    /\ [][NextStop]_vars
    /\ WF_vars(GenExit)
    /\ WF_vars(GenCancel)
    /\ \A c \in Clients : WF_vars(Register(c)) /\ WF_vars(HandlerEnd(c))

----------------------------------------------------------------------------
(* Properties of the history ring *)

\* C3: every history ring holds at most max_readings_per_sensor readings, and
\* it holds exactly the most recently stored readings of its sensor in
\* insertion order: after N > max stores exactly max entries, the oldest
\* N - max evicted.
C3_RingHoldsMostRecent ==
    \A sid \in DOMAIN sensor_data :
        /\ Len(sensor_data[sid]) <= MaxReadings
        /\ sid \in DOMAIN allStored
        /\ sensor_data[sid] = LastN(allStored[sid], MaxReadings)
        /\ Len(allStored[sid]) > MaxReadings => Len(sensor_data[sid]) = MaxReadings

\* more readings were stored than the ring holds, and the evicted one differs
\* from the oldest reading kept
C3_Witness ==
    \E sid \in DOMAIN sensor_data :
        /\ op.kind = "store"
        /\ Len(allStored[sid]) > MaxReadings
        /\ allStored[sid][1] # sensor_data[sid][1]

----------------------------------------------------------------------------
(* Properties of the statistics cache *)

\* the statistics call just made had a predecessor for the same sensor, both
\* with use_cache = true
StatsPair ==
    /\ op.kind = "stats"
    /\ op.use_cache
    /\ op.prev # None
    /\ op.prev[1].use_cache

----------------------------------------------------------------------------
(* Properties of the alert evaluation *)

\* the alerts the last store appended
NewAlerts == SubSeq(alerts, op.alerts_before + 1, Len(alerts))

\* the configured bound of a sensor type, None when the type has none
BoundOf(type, kind) ==
    IF type \notin DOMAIN alert_thresholds THEN None
    ELSE IF kind = "high_threshold" THEN alert_thresholds[type].high_threshold
    ELSE alert_thresholds[type].low_threshold

\* C5: storing one numeric reading appends exactly one high_threshold alert
\* iff its value is strictly above the type's high bound, exactly one
\* low_threshold alert iff it is strictly below the low bound, and nothing
\* else; each new alert carries the reading's sensor id and value and the
\* crossed threshold.
C5_AlertsOfStore ==
    (op.kind = "store" /\ is_numeric(op.reading)) =>
        LET r == op.reading
            hi == BoundOf(r.sensor_type, "high_threshold")
            lo == BoundOf(r.sensor_type, "low_threshold")
            highs == {i \in 1..Len(NewAlerts) : NewAlerts[i].alert_type = "high_threshold"}
            lows == {i \in 1..Len(NewAlerts) : NewAlerts[i].alert_type = "low_threshold"}
        IN  /\ Cardinality(highs) = IF hi # None /\ r.value > hi[1] THEN 1 ELSE 0
            /\ Cardinality(lows) = IF lo # None /\ r.value < lo[1] THEN 1 ELSE 0
            /\ Len(NewAlerts) = Cardinality(highs) + Cardinality(lows)
            /\ \A i \in 1..Len(NewAlerts) :
                  /\ NewAlerts[i].sensor_id = r.sensor_id
                  /\ NewAlerts[i].value = r.value
                  /\ Some(NewAlerts[i].threshold) = BoundOf(r.sensor_type, NewAlerts[i].alert_type)

\* a reading above the high bound was stored after an earlier alert, and
\* raised one high_threshold alert
C5_Witness ==
    /\ op.kind = "store"
    /\ op.alerts_before > 0
    /\ Len(NewAlerts) = 1
    /\ NewAlerts[1].alert_type = "high_threshold"
    /\ op.reading.value > NewAlerts[1].threshold

----------------------------------------------------------------------------
(* Properties of the generation loop and its broadcasts *)

\* the reading of a broadcast log entry is in its sensor's history ring
EntryStored(e) ==
    /\ e.sensor_id \in DOMAIN sensor_data
    /\ \E k \in 1..Len(sensor_data[e.sensor_id]) :
         sensor_data[e.sensor_id][k].reading_count = e.reading_count

\* the sensor_data messages of a broadcast log entry that client c was sent
EntryMessages(e, c) ==
    {k \in 1..Len(outbox[c]) :
       /\ outbox[c][k].type = "sensor_data"
       /\ outbox[c][k].data.sensor_id = e.sensor_id
       /\ outbox[c][k].data.reading_count = e.reading_count}

\* C1: a broadcast invoked while the live-client set is empty sends no
\* message and still stores the reading in the processor's history ring
C1_EmptyBroadcastStores ==
    \A i \in 1..Len(tick.bcasts) :
       LET e == tick.bcasts[i]
       IN  e.clients = {} =>
             /\ \A c \in Clients : EntryMessages(e, c) = {}
             /\ EntryStored(e)

\* C2: when a broadcast to registered clients returns and no client connected
\* or disconnected meanwhile, every client whose send failed is out of the
\* live-client set, and every other client of the broadcast is still in the
\* set and was sent the message exactly once
C2_FailedRemovedOthersServed ==
    \A i \in 1..Len(tick.bcasts) :
       LET e == tick.bcasts[i]
       IN  (e.returned = "ok" /\ e.clients # {} /\ ~e.concurrent) =>
             /\ e.failed \subseteq e.clients
             /\ e.failed \cap e.clients_after = {}
             /\ \A c \in e.clients \ e.failed :
                  /\ c \in e.clients_after
                  /\ Cardinality(EntryMessages(e, c)) = 1
             /\ \A c \in e.failed : EntryMessages(e, c) = {}

\* a broadcast to two clients returned with one send failed
C2_Witness ==
    \E i \in 1..Len(tick.bcasts) :
       LET e == tick.bcasts[i]
       IN  /\ e.returned = "ok"
           /\ ~e.concurrent
           /\ e.clients = Clients
           /\ Cardinality(e.failed) = 1

\* C6: when a tick of the loop has ended, every active sensor produced
\* exactly one reading in it, the reading is stored, and it was sent as one
\* message to every client registered at its broadcast
C6_TickStoresAndSends ==
    (gen.pc = "sleep" /\ tick.n > 0) =>
       /\ \A s \in Sensors :
            is_active[s] =>
              Cardinality({i \in 1..Len(tick.bcasts) : tick.bcasts[i].sensor_id = s}) = 1
       /\ \A i \in 1..Len(tick.bcasts) :
            LET e == tick.bcasts[i]
            IN  /\ EntryStored(e)
                /\ \A c \in e.clients \ e.failed : Cardinality(EntryMessages(e, c)) = 1

\* a client whose handler has registered it
Registered(c) == hpc[c] \in {"loop", "toggle_bcast", "done"}

\* C7: a client is in the live-client set exactly from its registration
\* until its unregistration; registration adds it and sends the full roster;
\* a client whose handler has ended is not in the set; unregistering an
\* absent client leaves the set unchanged
C7_InSetWhileRegistered ==
    /\ [](\A c \in Clients :
            /\ c \in connected_clients <=> (Registered(c) /\ c \notin unregistered)
            /\ hpc[c] = "done" => c \notin connected_clients
            /\ c \notin connected_clients =>
                 unregister_client(Srv, c).cc = connected_clients)
    /\ [][\A c \in Clients :
            (hpc[c] = "accepted" /\ hpc'[c] = "loop") =>
               /\ client_count' = client_count + 1
               /\ c \in connected_clients' \/ conn[c] = "closed"
               /\ conn[c] = "closed" => outbox'[c] = outbox[c]
               /\ outbox'[c] # outbox[c] =>
                    outbox'[c] = Append(outbox[c],
                                        sensor_list_message(is_active, reading_count,
                                                            connected_clients \cup {c}, now))]_vars

\* one handler has ended while the other client, registered and sent its
\* roster, stays in the set
C7_Witness ==
    /\ hpc["c1"] = "done"
    /\ "c1" \notin connected_clients
    /\ "c2" \in connected_clients
    /\ Len(outbox["c1"]) >= 1
    /\ outbox["c2"] # <<>>
    /\ outbox["c2"][1].type = "sensor_list"

----------------------------------------------------------------------------
(* Properties of the command handlers *)

\* this step handled a command
Handled == op' # op /\ op'.kind = "cmd"

\* the server and processor state a command can change
CommandFrame == <<is_active, reading_count, connected_clients, client_count,
                  unregistered, procVars, outbox>>

\* C8: a toggle_sensor or get_history command naming an unknown sensor id
\* changes no flag, not the live-client set, not the processor, and sends
\* nothing to the requester or to any other client
C8_UnknownIdNoEffect ==
    [][(/\ Handled
        /\ op'.msg.json
        /\ op'.msg.command \in {"toggle_sensor", "get_history"}
        /\ op'.msg.sensor_id \notin Sensors)
       => UNCHANGED <<CommandFrame, hpc, hloc>>]_vars

\* a registered client's last command was a toggle of an unknown sensor
\* while both clients were registered
C8_Witness ==
    /\ op.kind = "cmd"
    /\ op.msg.command = "toggle_sensor"
    /\ op.msg.sensor_id \notin Sensors
    /\ connected_clients = Clients
    /\ \A c \in Clients : conn[c] = "open"

\* the clients that the roster broadcast of handler c has sent to
SentTo(c) == {n.client : n \in hloc[c].sent}

\* the roster shows the flags act
RosterShows(roster, act) ==
    \A k \in 1..Len(roster.sensors) :
       (roster.sensors[k].status = "active") <=> act[roster.sensors[k].id]

\* C9 as stated: every roster of the broadcast that follows a toggle shows
\* the status the toggle set
C9_Original ==
    \A c \in Clients : \A n \in hloc[c].sent : n.shown = hloc[c].new_status

\* C9: a toggle_sensor command for a known id flips exactly that sensor's
\* flag (two toggles restore it) and then sends a roster to every client
\* registered at that moment; each roster shows the flags as they are when
\* it is sent
C9_ToggleFlipsAndBroadcasts ==
    /\ [][(Handled /\ op'.msg.json /\ op'.msg.command = "toggle_sensor"
                   /\ op'.msg.sensor_id \in Sensors)
          => /\ is_active' = [is_active EXCEPT ![op'.msg.sensor_id] = ~@]
             /\ toggle_flag(is_active', op'.msg.sensor_id) = is_active
             /\ hloc'[op'.client].targets = connected_clients
             /\ hloc'[op'.client].new_status = is_active'[op'.msg.sensor_id]
             /\ UNCHANGED <<reading_count, procVars>>]_vars
    /\ [](\A c \in Clients :
            /\ SentTo(c) \cup hloc[c].todo = hloc[c].targets
            /\ hpc[c] = "toggle_bcast" <=> hloc[c].todo # {}
            /\ Cardinality(hloc[c].sent) = Cardinality(SentTo(c)))
    /\ [][\A t \in Clients :
            (outbox'[t] # outbox[t] /\ outbox'[t][Len(outbox'[t])].type = "sensor_list")
               => RosterShows(outbox'[t][Len(outbox'[t])], is_active')]_vars

\* a toggle of a known sensor whose roster broadcast has reached both
\* registered clients
C9_Witness ==
    \E c \in Clients :
       /\ hpc[c] = "loop"
       /\ hloc[c].sensor_id \in Sensors
       /\ hloc[c].targets = Clients
       /\ SentTo(c) = Clients
       /\ \A n \in hloc[c].sent : n.out = "ok"

\* C10: a message that is not JSON, or whose command tag is missing or not
\* one of the six commands, sends nothing, changes no sensor, not the
\* live-client set and not the processor, and leaves the sender's message
\* loop running
C10_IgnoredMessageNoEffect ==
    [][(Handled /\ (~op'.msg.json \/ op'.msg.command \notin KnownCommands))
       => /\ UNCHANGED <<CommandFrame, hpc, hloc, conn>>
          /\ hpc'[op'.client] = "loop"]_vars

\* a registered client's last message carried an unknown command tag
C10_Witness ==
    /\ op.kind = "cmd"
    /\ op.msg.json
    /\ op.msg.command \notin KnownCommands
    /\ op.msg.command # ""
    /\ op.client \in connected_clients
    /\ hpc[op.client] = "loop"

----------------------------------------------------------------------------
(* Properties of the processor's queries *)

\* the ring of sensor sid, most recent first, as dictionaries
RingNewestFirst(sid) ==
    [i \in 1..Len(sensor_data[sid]) |->
       to_dict(sensor_data[sid][Len(sensor_data[sid]) + 1 - i])]

\* C11: history(sensor_id, limit) returns the ring's readings most recent
\* first; with a limit n >= 0 it returns at most n entries, the n most
\* recent; for an id without a ring it returns the empty sequence and
\* creates no ring
C11_HistoryNewestFirstLimited ==
    op.kind = "history" =>
       IF op.sensor_id \notin DOMAIN sensor_data
       THEN op.result = <<>>
       ELSE LET all == RingNewestFirst(op.sensor_id)
            IN  IF op.limit = None THEN op.result = all
                ELSE /\ Len(op.result) <= op.limit[1]
                     /\ op.result = SubSeq(all, 1, Len(op.result))
                     /\ Len(op.result) = Len(all) \/ Len(op.result) = op.limit[1]

\* what clear_sensor_data(sid) leaves of the other sensors, the alerts and
\* the global counter
ClearKeepsOthers(sid) ==
    /\ \A k \in DOMAIN sensor_data \ {sid} :
         k \in DOMAIN sensor_data' /\ sensor_data'[k] = sensor_data[k]
    /\ \A k \in DOMAIN stats_cache \ {sid} :
         /\ k \in DOMAIN stats_cache' /\ stats_cache'[k] = stats_cache[k]
         /\ k \in DOMAIN cache_expiry' /\ cache_expiry'[k] = cache_expiry[k]
    /\ \A k \in DOMAIN sensor_metadata \ {sid} :
         k \in DOMAIN sensor_metadata' /\ sensor_metadata'[k] = sensor_metadata[k]
    /\ alerts' = alerts
    /\ total_readings' = total_readings

\* what clear_sensor_data(sid) removes: history, statistics and metadata
ClearRemoves(sid) ==
    /\ get_sensor_history(Proc', sid, 0) = <<>>
    /\ get_sensor_statistics(Proc', sid, TRUE, now').result = None
    /\ sid \notin DOMAIN stats_cache'
    /\ sid \notin DOMAIN cache_expiry'
    /\ sid \notin DOMAIN sensor_metadata'
    /\ sid \notin get_system_info(Proc', now').sensors

\* C12: clear(sensor_id) removes that sensor's history, cache entry and
\* metadata, so that system_info neither lists nor counts it, and leaves
\* the other sensors, the alerts and the global counter unchanged; clear()
\* empties history, cache, metadata and alerts and resets the counter
C12_ClearOneOrAll ==
    [][(op'.kind = "clear" /\ budget' # budget) =>
          IF op'.sensor_id = None
          THEN /\ DOMAIN sensor_data' = {}
               /\ DOMAIN stats_cache' = {}
               /\ DOMAIN cache_expiry' = {}
               /\ DOMAIN sensor_metadata' = {}
               /\ alerts' = <<>>
               /\ total_readings' = 0
          ELSE LET sid == op'.sensor_id[1]
               IN  /\ ClearRemoves(sid)
                   /\ ClearKeepsOthers(sid)
                   /\ get_system_info(Proc', now').total_sensors
                        = Cardinality(DOMAIN sensor_data \ {sid})
                   /\ get_system_info(Proc', now').active_sensors
                        = Cardinality({k \in DOMAIN sensor_metadata \ {sid} :
                                         sensor_metadata[k].total_readings > 0})]_vars

----------------------------------------------------------------------------
(* Properties of export_data *)

\* the format of the call is JSON or CSV, compared case-insensitively
Supported(call) == Lower(call.format) \in {"json", "csv"}

\* C13: an export call with format JSON or CSV, with or without metadata,
\* never waits for ever; it does not end with an error; and when it has
\* returned, it returned the serialized history and the lock is free
C13_ExportReturnsLockFree ==
    (export_call.pc # "idle" /\ Supported(export_call)) =>
       /\ export_call.pc \notin {"blocked", "raised"}
       /\ export_call.pc = "returned" =>
            /\ data_lock = "free"
            /\ export_call.result # None

\* C14: an export call with another format ends with the unsupported-format
\* error, with or without metadata: it neither returns a result nor waits
\* for ever, the lock is free when the error is raised, and no step of the
\* call changes history, metadata, cache, alerts or counters
C14_UnsupportedFormatRaises ==
    /\ []((export_call.pc # "idle" /\ ~Supported(export_call)) =>
            /\ export_call.pc \notin {"blocked", "returned"}
            /\ export_call.pc = "raised" => data_lock = "free")
    /\ [][(export_call' # export_call /\ export_call'.pc # "idle"
                                       /\ ~Supported(export_call'))
             => UNCHANGED procVars]_vars

----------------------------------------------------------------------------
(* Properties of the statistics *)

\* the positions of a ring whose reading is active with a numeric value
ActiveAt(ring) == {i \in 1..Len(ring) : ring[i].status = "active" /\ ring[i].value \in Int}

\* the value of the k-th smallest of the readings at the positions I of a
\* ring, equal values ordered by position
KthSmallest(ring, I, k) ==
    LET Before(i) == {j \in I : \/ ring[j].value < ring[i].value
                                \/ ring[j].value = ring[i].value /\ j < i}
    IN  ring[CHOOSE i \in I : Cardinality(Before(i)) = k - 1].value

\* stats is what the claim says of a ring with an active numeric reading
\* (mean and median in hundredths, the mean rounded to the nearest)
StatsOfRing(stats, ring) ==
    LET I == ActiveAt(ring)
        n == Cardinality(I)
        sum == SumSeq([i \in 1..Len(ring) |-> IF i \in I THEN ring[i].value ELSE 0])
        err == n * stats.average - 100 * sum
    IN  /\ stats.total_readings = Len(ring)
        /\ stats.active_readings = n
        /\ \E i \in I : stats.min_value = ring[i].value
        /\ \A i \in I : stats.min_value <= ring[i].value
        /\ \E i \in I : stats.max_value = ring[i].value
        /\ \A i \in I : stats.max_value >= ring[i].value
        /\ stats.latest_value = ring[CHOOSE i \in I : \A j \in I : j <= i].value
        /\ 2 * err <= n /\ -2 * err <= n
        /\ stats.median = IF n % 2 = 1
                          THEN 100 * KthSmallest(ring, I, (n + 1) \div 2)
                          ELSE 50 * (KthSmallest(ring, I, n \div 2)
                                     + KthSmallest(ring, I, n \div 2 + 1))

\* the statistics of a processor that holds the readings 10, 20, 30
StatsOfExample ==
    LET ring == [i \in 1..3 |->
                   MkReading("temperature", "TemperatureSensor", 10 * i, "active", 0)]
        P == [ProcInit EXCEPT !.sensor_data = Put(@, "temperature", ring)]
    IN  get_sensor_statistics(P, "temperature", TRUE, 0).result

\* C19: a statistics call returns the empty result exactly when the sensor
\* has no reading in its ring that is active and numeric, and then the cache
\* holds nothing for the sensor; otherwise its count, active count, min,
\* max, latest, mean and median are those of the ring; the readings
\* 10, 20, 30 give min 10, max 30, average 20 and median 20
C19_StatisticsOfRing ==
    /\ op.kind = "stats" =>
         LET sid == op.sensor_id
             ring == IF sid \in DOMAIN sensor_data THEN sensor_data[sid] ELSE <<>>
         IN  IF ActiveAt(ring) = {}
             THEN /\ op.result = None
                  /\ sid \notin DOMAIN stats_cache
                  /\ sid \notin DOMAIN cache_expiry
             ELSE /\ op.result # None
                  /\ StatsOfRing(op.result[1], ring)
    /\ StatsOfExample # None
    /\ StatsOfExample[1].min_value = 10
    /\ StatsOfExample[1].max_value = 30
    /\ StatsOfExample[1].average = 2000
    /\ StatsOfExample[1].median = 2000
    /\ StatsOfRing(StatsOfExample[1],
                   [i \in 1..3 |->
                      MkReading("temperature", "TemperatureSensor", 10 * i, "active", 0)])

\* statistics over a ring of two active readings, the latest the smaller
C19_Witness ==
    /\ op.kind = "stats"
    /\ op.result # None
    /\ op.result[1].active_readings = 2
    /\ op.result[1].min_value < op.result[1].max_value
    /\ op.result[1].latest_value = op.result[1].min_value

\* an empty statistics result for a sensor whose ring holds only a failed read
C19_WitnessEmpty ==
    /\ op.kind = "stats"
    /\ op.result = None
    /\ op.sensor_id \in DOMAIN sensor_data
    /\ sensor_data[op.sensor_id] # <<>>

----------------------------------------------------------------------------
(* Properties of a sensor object *)

\* this step is a read() call
ReadStep == sensor_hist'.kind = "read" /\ sensor_hist'.left.reads < sensor_hist.left.reads

\* C15: read() on a sensor whose is_active flag is false returns status
\* inactive and value 0, leaves the generation state of every variant as
\* it was, and leaves the reading counter unchanged
C15_InactiveReadChangesNothing ==
    [][(ReadStep /\ ~sensor.is_active) =>
          /\ sensor_hist'.reading[1].status = "inactive"
          /\ sensor_hist'.reading[1].value = 0
          /\ sensor_hist'.reading[1].reading_count = sensor.reading_count
          /\ sensor'.g = sensor.g
          /\ sensor'.reading_count = sensor.reading_count
          /\ sensor'.metadata = sensor.metadata]_vars

\* an inactive read of a sensor that has read before
C15_Witness ==
    /\ sensor_hist.kind = "read"
    /\ sensor_hist.reading[1].status = "inactive"
    /\ sensor.reading_count > 0
    /\ sensor.g # InitialGen(sensor.kind)

\* C16: when the generation raises inside read() of an active sensor, read()
\* returns a reading with status error, value 0 and the fault text in its
\* metadata, and the reading counter is as before the call
C16_FaultGivesErrorReading ==
    [][(ReadStep /\ sensor_hist'.fault) =>
          /\ sensor_hist'.reading # None
          /\ sensor_hist'.reading[1].status = "error"
          /\ sensor_hist'.reading[1].value = 0
          /\ sensor_hist'.reading[1].metadata = [error |-> "generation fault"]
          /\ sensor_hist'.reading[1].reading_count = sensor.reading_count
          /\ sensor'.reading_count = sensor.reading_count]_vars

\* a faulty read of a sensor that has read successfully before
C16_Witness ==
    /\ sensor_hist.kind = "read"
    /\ sensor_hist.fault
    /\ sensor_hist.reading[1].status = "error"
    /\ sensor.reading_count > 0

C18_MotionDurationThenCooldown ==
    \A k \in 1..Len(sensor_hist.events) :
       LET e == sensor_hist.events[k]
           outs == sensor_hist.outs
       IN  /\ e.what = "detection" =>
                /\ \A i \in e.tick..(e.tick + e.n - 1) : i <= Len(outs) => outs[i] = 1
                /\ e.tick + e.n <= Len(outs) => outs[e.tick + e.n] = 0
           /\ e.what = "cooldown" =>
                /\ \A i \in (e.tick + 1)..(e.tick + e.n) : i <= Len(outs) => outs[i] = 0
                /\ \A j \in 1..Len(sensor_hist.events) :
                     sensor_hist.events[j].what = "detection" =>
                       sensor_hist.events[j].tick \notin (e.tick + 1)..(e.tick + e.n)

----------------------------------------------------------------------------
(* Properties of the generators *)

\* C21: every value a temperature generation call returns lies within
\* base - variation and base + variation, for the base temperature the
\* sensor had when the call began
C21_TemperatureWithinVariation ==
    (sensor_hist.kind = "generate" /\ sensor.kind = "temperature") =>
       /\ sensor_hist.value >= sensor_hist.before.base_temperature
                                 - sensor_hist.before.variation
       /\ sensor_hist.value <= sensor_hist.before.base_temperature
                                 + sensor_hist.before.variation

\* C22: every value a humidity generation call returns lies within 20 and 80
C22_HumidityWithinBounds ==
    (sensor_hist.kind = "generate" /\ sensor.kind = "humidity") =>
       /\ sensor_hist.value >= 20000
       /\ sensor_hist.value <= 80000

\* a humidity call whose components sum to less than 20 and that returns 20
C22_Witness ==
    /\ sensor_hist.kind = "generate"
    /\ sensor.kind = "humidity"
    /\ sensor_hist.before.base_humidity = 10000
    /\ sensor_hist.value = 20000

----------------------------------------------------------------------------
(* Properties of the shutdown *)

\* C23: once the server is stopped the generation loop eventually exits and
\* the live-client set eventually is empty; no tick begins after the stop
\* (nothing is read, stored or broadcast beyond the tick in progress); and a
\* send to a client whose connection is closed delivers nothing
C23_StopEndsLoopAndClients ==
    /\ Stopped ~> (gen.pc = "exited" /\ connected_clients = {})
    /\ [][Stopped => tick'.n = tick.n]_vars
    /\ [][gen.pc = "exited" =>
            /\ gen'.pc = "exited"
            /\ sensor_data' = sensor_data
            /\ reading_count' = reading_count
            /\ outbox' = outbox]_vars
    /\ [][\A c \in Clients : conn[c] = "closed" => outbox'[c] = outbox[c]]_vars

\* the server was stopped inside a broadcast to two registered clients, the
\* loop has exited and the set is empty
C23_Witness ==
    /\ gen.pc = "exited"
    /\ connected_clients = {}
    /\ unregistered = Clients
    /\ tick.bcasts # <<>>
    /\ tick.bcasts[1].clients = Clients
    /\ tick.bcasts[1].failed # {}

----------------------------------------------------------------------------
(* Properties of the command responses and of failed sends *)

QueryCommands == {"get_sensors", "get_history", "get_statistics", "get_system_info",
                  "get_alerts"}

\* the type of the response to a query command
ResponseType(command) ==
    CASE command = "get_sensors" -> "sensor_list"
      [] command = "get_history" -> "sensor_history"
      [] command = "get_statistics" -> "statistics"
      [] command = "get_system_info" -> "system_info"
      [] OTHER -> "alerts"

\* this step handles a query command
QueryHandled == Handled /\ op'.msg.json /\ op'.msg.command \in QueryCommands

\* the query command handled names a sensor the server does not have
UnknownHistory == op'.msg.command = "get_history" /\ op'.msg.sensor_id \notin Sensors

\* C24 as stated: handling a query command on a connection that takes the
\* send puts exactly one message on the requester's side and none on any
\* other client's
C24_Original ==
    [][(QueryHandled /\ op'.out = "ok") =>
          /\ Len(outbox'[op'.client]) = Len(outbox[op'.client]) + 1
          /\ \A c \in Clients \ {op'.client} : outbox'[c] = outbox[c]]_vars

\* C24: handling a query command sends no message to any client other than
\* the requester and at most one to the requester; when the send succeeds
\* the requester gets exactly one message, the response of the command's
\* type, except that get_history for an unknown sensor id sends nothing
C24_ResponseToRequesterOnly ==
    [][QueryHandled =>
          /\ \A c \in Clients \ {op'.client} : outbox'[c] = outbox[c]
          /\ IF op'.out = "ok" /\ ~UnknownHistory
             THEN /\ Len(outbox'[op'.client]) = Len(outbox[op'.client]) + 1
                  /\ SubSeq(outbox'[op'.client], 1, Len(outbox[op'.client]))
                       = outbox[op'.client]
                  /\ outbox'[op'.client][Len(outbox'[op'.client])].type
                       = ResponseType(op'.msg.command)
             ELSE outbox'[op'.client] = outbox[op'.client]]_vars

\* a statistics response went to its requester while both clients were
\* registered with open connections
C24_Witness ==
    /\ op.kind = "cmd"
    /\ op.msg.command = "get_statistics"
    /\ op.out = "ok"
    /\ connected_clients = Clients
    /\ \A c \in Clients : conn[c] = "open"
    /\ outbox[op.client] # <<>>
    /\ outbox[op.client][Len(outbox[op.client])].type = "statistics"

\* C27: whenever a send fails (the roster sent on connect, the response to a
\* query command, a roster of the broadcast after a toggle), the client it
\* was for is out of the live-client set when the operation goes on
C27_FailedSendUnregisters ==
    /\ [][(QueryHandled /\ op'.out # "ok" /\ ~UnknownHistory)
            => op'.client \notin connected_clients']_vars
    /\ [][\A c \in Clients :
            (hpc[c] = "accepted" /\ hpc'[c] = "loop" /\ outbox'[c] = outbox[c])
               => c \notin connected_clients']_vars
    /\ [][\A c \in Clients : \A n \in hloc'[c].sent \ hloc[c].sent :
            n.out # "ok" => n.client \notin connected_clients']_vars

----------------------------------------------------------------------------
(* Properties of the processor under two threads *)

\* C26: a statistics call that runs while another thread stores or clears
\* never faults, and what it returns is what a call serialized before the
\* mutations (at its beginning) or after them (at its return) would return
C26_StatisticsSerialized ==
    /\ stats_call.pc # "faulted"
    /\ stats_call.pc = "returned" =>
         stats_call.result \in {stats_call.pre, stats_call.post}

----------------------------------------------------------------------------
(* Properties of the generation loop under concurrent changes and faults *)

\* a broadcast of the tick log ended with a fault
TickFaulted == \E i \in 1..Len(tick.bcasts) : tick.bcasts[i].returned = "fault"

\* C25: a broadcast during which a client registered or was unregistered
\* raises no fault, and the tick it belongs to reads and broadcasts every
\* active sensor
C25_ConcurrentChangeTolerated ==
    /\ \A i \in 1..Len(tick.bcasts) :
         tick.bcasts[i].concurrent => tick.bcasts[i].returned # "fault"
    /\ (gen.pc = "sleep" /\ tick.n > 0) =>
         Len(tick.bcasts) = Cardinality(ActiveFrom(1))

\* C28: while the running flag is set, a fault inside a tick leaves the
\* loop running (it sleeps, the flag as it was), and a later tick follows
\* as long as ticks are left to run (the log of a tick is emptied when the
\* next tick begins)
C28_FaultDoesNotEndLoop ==
    /\ [](TickFaulted => (gen.pc \in {"sleep", "send"} /\ is_running))
    /\ [][(~TickFaulted /\ TickFaulted') => gen'.pc = "sleep"]_vars
    /\ (TickFaulted /\ budget.ticks > 0) ~> ~TickFaulted

\* a second tick that ran to its end after a first tick that a fault
\* abandoned once the first sensor was read: the sensors after it were read
\* once only
C28_Witness ==
    /\ tick.n = 2
    /\ gen.pc = "sleep"
    /\ ~TickFaulted
    /\ reading_count["temperature"] = 2
    /\ reading_count["motion"] = 1

----------------------------------------------------------------------------
(* Properties of the sensor metadata and of the trend *)

\* C29: the metadata of a sensor counts the readings stored for it since
\* its creation or last clear, also beyond the ring capacity; its
\* first-reading time is that of the first of them, its last-reading time
\* and status those of the last
C29_MetadataRunningCount ==
    \A sid \in DOMAIN sensor_metadata :
       /\ sid \in DOMAIN allStored
       /\ allStored[sid] # <<>>
       /\ sensor_metadata[sid].total_readings = Len(allStored[sid])
       /\ sensor_metadata[sid].first_reading = isoformat(allStored[sid][1].timestamp)
       /\ sensor_metadata[sid].last_reading
            = isoformat(allStored[sid][Len(allStored[sid])].timestamp)
       /\ sensor_metadata[sid].status = allStored[sid][Len(allStored[sid])].status

\* the trend the claim describes for values that are all positive: the mean
\* of the last five against the mean of the up to five values before them
\* (stable when there is none), by more than 5% up or down
StatedTrend(values) ==
    LET n == Len(values)
        recent == SumSeq(SubSeq(values, n - 4, n))
        first == IF n - 9 > 1 THEN n - 9 ELSE 1
        k == (n - 5) - first + 1
        older == SumSeq(SubSeq(values, first, n - 5))
    IN  IF k = 0 THEN "stable"
        ELSE IF 100 * recent * k > 105 * older * 5 THEN "increasing"
        ELSE IF 100 * recent * k < 95 * older * 5 THEN "decreasing"
        ELSE "stable"

\* C30: with at least five active numeric values the statistics report the
\* trend of the last five values against the values preceding them
C30_TrendOfLastFive ==
    (op.kind = "stats" /\ op.result # None /\ op.result[1].active_readings >= 5) =>
       op.result[1].trend =
         StatedTrend([i \in 1..Len(sensor_data[op.sensor_id]) |->
                        sensor_data[op.sensor_id][i].value])

----------------------------------------------------------------------------
(* The readings of the last minutes *)

\* the readings of a ring that are not older than the cutoff, newest first
RECURSIVE NotOlderThan(_, _)
NotOlderThan(ring, cutoff) ==
    IF ring = <<>> THEN <<>>
    ELSE (IF ring[Len(ring)].timestamp >= cutoff THEN <<ring[Len(ring)]>> ELSE <<>>)
         \o NotOlderThan(SubSeq(ring, 1, Len(ring) - 1), cutoff)

\* C31: get_recent_readings(sensor_id, minutes) returns exactly the readings
\* of the sensor's ring whose timestamp is not older than now - minutes,
\* most recent first, whatever the timestamps the readings were stored
\* with; for an unknown sensor id it returns the empty sequence.
C31_RecentReturnsAllRecent ==
    op.kind = "recent" =>
        op.result = IF op.known
                    THEN NotOlderThan(op.ring, op.time - 60 * op.minutes)
                    ELSE <<>>


----------------------------------------------------------------------------
(* The life of an alert *)

\* the step is clear_sensor_data() with no sensor id
ClearAllStep ==
    /\ op'.kind = "clear"
    /\ op'.sensor_id = None
    /\ budget'.queries # budget.queries
    /\ UNCHANGED export_call

StoreStep == budget'.stores # budget.stores

\* the reading is numeric and beyond a bound of its sensor type
CrossesBound(r) ==
    LET hi == BoundOf(r.sensor_type, "high_threshold")
        lo == BoundOf(r.sensor_type, "low_threshold")
    IN  /\ is_numeric(r)
        /\ \/ hi # None /\ r.value > hi[1]
           \/ lo # None /\ r.value < lo[1]

\* C32: an alert, once appended, stays in the alert list across every later
\* store, query, export, ring eviction and clear(sensor_id), also of its own
\* sensor; only clear() with no sensor id removes alerts, and the list grows
\* by one alert for every reading that crosses a bound, without
\* de-duplication.
C32_AlertsKeptUntilClearAll ==
    [][/\ ClearAllStep => alerts' = <<>>
       /\ ~ClearAllStep =>
             /\ Len(alerts') >= Len(alerts)
             /\ SubSeq(alerts', 1, Len(alerts)) = alerts
       /\ StoreStep =>
             Len(alerts') = Len(alerts) + IF CrossesBound(op'.reading) THEN 1 ELSE 0
       /\ ~StoreStep => Len(alerts') <= Len(alerts)]_vars

\* two equal alerts of the temperature sensor are still in the list after
\* three stores, an export and the clear of that sensor
C32_Witness ==
    /\ Len(alerts) = 2
    /\ alerts[1] = alerts[2]
    /\ alerts[1].sensor_id = "temperature"
    /\ op.kind = "clear"
    /\ op.sensor_id = Some("temperature")
    /\ sensor_data["temperature"] = <<>>
    /\ budget.stores = 0
    /\ export_call.pc = "returned"


----------------------------------------------------------------------------
(* Faults inside store_reading *)

\* what the processor holds for one sensor: ring, metadata, cache entry and
\* expiry, each None when the sensor has no entry
SensorPart(data, meta, cache, expiry, sid) ==
    [ring |-> IF sid \in DOMAIN data THEN Some(data[sid]) ELSE None,
     metadata |-> IF sid \in DOMAIN meta THEN Some(meta[sid]) ELSE None,
     cache |-> IF sid \in DOMAIN cache THEN Some(cache[sid]) ELSE None,
     expiry |-> IF sid \in DOMAIN expiry THEN Some(expiry[sid]) ELSE None]

\* C33: store_reading never raises to its caller: a fault inside the store
\* of a reading of sensor A gives the return value False, and leaves the
\* ring, the metadata and the cache entry of every other sensor as they were.
C33_FaultReturnsFalseOthersKept ==
    [][StoreStep =>
         /\ ~op'.raised
         /\ op'.result = (op'.defect = "none"
                          \/ (op'.defect = "value"
                              /\ op'.reading.sensor_type \notin DOMAIN alert_thresholds))
         /\ ~op'.result =>
               \A sid \in (Sensors \cup DOMAIN sensor_data') \ {op'.reading.sensor_id} :
                  SensorPart(sensor_data', sensor_metadata', stats_cache',
                             cache_expiry', sid)
                  = SensorPart(sensor_data, sensor_metadata, stats_cache,
                               cache_expiry, sid)]_vars

\* the store of a humidity reading failed after it changed the humidity
\* ring, while the temperature sensor has a full ring, metadata and a cache
\* entry
C33_Witness ==
    /\ op.kind = "store"
    /\ ~op.result
    /\ op.reading.sensor_id = "humidity"
    /\ sensor_data["humidity"] # <<>>
    /\ "temperature" \in DOMAIN stats_cache
    /\ "temperature" \in DOMAIN sensor_metadata
    /\ Len(sensor_data["temperature"]) = MaxReadings

\* C34: when store_reading returns False the processor is as it was before
\* the call: the failed reading is not in its sensor's ring, and the
\* metadata, the global reading counter, the statistics cache and the alert
\* list are unchanged.
C34_FailedStoreChangesNothing ==
    [][(StoreStep /\ ~op'.result) => UNCHANGED procVars]_vars


----------------------------------------------------------------------------
(* The statistics cache against the rings *)

\* a statistics dict without the time it was computed at
Aggregates(stats) == [stats EXCEPT !.calculation_time = isoformat(0)]

\* C35: in every reachable state the statistics cache and the expiry table
\* have the same sensor ids, and every cache entry equals, in all aggregate
\* fields, the statistics recomputed from the sensor's current ring: no
\* store, eviction or clear leaves a stale entry behind.
C35_CacheMatchesRing ==
    /\ DOMAIN stats_cache = DOMAIN cache_expiry
    /\ \A sid \in DOMAIN stats_cache :
          /\ sid \in DOMAIN sensor_data
          /\ ActiveValues(sensor_data[sid]) # <<>>
          /\ Aggregates(stats_cache[sid])
             = Aggregates(compute_statistics(sid, sensor_data[sid], now))


----------------------------------------------------------------------------
(* Alerts and the status of a reading *)

\* type, value and threshold of each alert of a sequence
AlertKinds(seq) ==
    [i \in 1..Len(seq) |-> [alert_type |-> seq[i].alert_type, value |-> seq[i].value,
                            threshold |-> seq[i].threshold]]

\* C36: the alerts of a store depend on the reading's sensor type and value
\* only, not on its status: a stored reading of status error or inactive
\* (value 0) of a type whose low bound is above 0 (temperature, humidity,
\* light) appends a low_threshold alert, and a reading of a type without
\* thresholds (motion, pressure, air quality) never appends an alert.
C36_AlertsIgnoreStatus ==
    op.kind = "store" =>
        LET r == op.reading
            lo == BoundOf(r.sensor_type, "low_threshold")
        IN  /\ AlertKinds(NewAlerts)
               = AlertKinds(check_alerts([r EXCEPT !.status = "active"], now))
            /\ (r.status \in {"error", "inactive"} /\ r.value = 0
                   /\ r.sensor_type \in {"TemperatureSensor", "HumiditySensor",
                                          "LightSensor"})
                 => /\ lo # None /\ lo[1] > 0
                    /\ Len(NewAlerts) = 1
                    /\ NewAlerts[1].alert_type = "low_threshold"
            /\ r.sensor_type \in {"MotionSensor", "PressureSensor", "AirQualitySensor"}
                 => NewAlerts = <<>>

\* an error reading of the light sensor raised a low_threshold alert after an
\* inactive reading had raised one
C36_Witness ==
    /\ op.kind = "store"
    /\ op.reading.status = "error"
    /\ op.reading.sensor_type = "LightSensor"
    /\ op.alerts_before = 1
    /\ Len(alerts) = 2
    /\ alerts[2].alert_type = "low_threshold"
    /\ sensor_data["s1"][1].status = "inactive"


----------------------------------------------------------------------------
(* Alert ids *)

\* C37: any two distinct alerts of the alert list have distinct alert ids,
\* also two alerts created for the same sensor within one second.
C37_AlertIdsDistinct ==
    \A i, j \in 1..Len(alerts) : i # j => alerts[i].alert_id # alerts[j].alert_id


----------------------------------------------------------------------------
(* The global reading counter *)

\* the number of readings held in all rings
HeldReadings ==
    SumSeq([i \in 1..Len(KeySeq(DOMAIN sensor_data)) |->
              Len(sensor_data[KeySeq(DOMAIN sensor_data)[i]])])

\* C38: the global reading counter is the number of successful store calls
\* since construction or the last clear() with no id: a successful store
\* adds exactly one, a failed store, ring eviction, clear(sensor_id), the
\* queries and export leave it unchanged, and it is never smaller than the
\* number of readings held in all rings.
C38_CounterCountsSuccessfulStores ==
    /\ [](total_readings >= HeldReadings)
    /\ [][/\ StoreStep =>
               total_readings' = total_readings + IF op'.result THEN 1 ELSE 0
          /\ ClearAllStep => total_readings' = 0
          /\ (~StoreStep /\ ~ClearAllStep) => total_readings' = total_readings]_vars


----------------------------------------------------------------------------
(* The cache hit ratio *)

\* C39: the cache hit ratio reported by get_system_info is 0 in every
\* reachable state, whatever statistics calls (cache hits or recomputations)
\* came before: no operation updates the hit or miss counter.
C39_CacheHitRatioZero ==
    /\ cache_hits = 0
    /\ cache_misses = 0
    /\ get_system_info(Proc, now).cache_hit_ratio = 0
    /\ op.kind = "info" => op.result.cache_hit_ratio = 0

\* get_system_info was called right after a statistics call that the cache
\* served (an earlier call had recomputed and filled it)
C39_Witness ==
    /\ op.kind = "info"
    /\ op.prev.kind = "stats"
    /\ op.prev.hit
    /\ op.result.cache_hit_ratio = 0
    /\ op.result.total_readings > 0


----------------------------------------------------------------------------
(* Resolved and acknowledged alerts *)

\* C40: for every alert in every reachable state, resolved implies that
\* resolved_at is set and not earlier than the alert's creation timestamp;
\* an alert is active exactly when it is not resolved; acknowledging an
\* alert does not change its resolved state.
C40_ResolvedHasTime ==
    /\ [](\A i \in 1..Len(alerts) :
            /\ alerts[i].resolved =>
                  /\ alerts[i].resolved_at # None
                  /\ alerts[i].resolved_at[1] >= alerts[i].timestamp
            /\ alert_is_active(alerts[i]) <=> ~alerts[i].resolved)
    /\ []((op.kind = "alerts" /\ op.active_only) =>
            \A i \in 1..Len(op.result) : ~op.result[i].resolved)
    /\ [][(op'.kind = "acknowledge" /\ budget'.queries # budget.queries) =>
            /\ Len(alerts') = Len(alerts)
            /\ \A i \in 1..Len(alerts) :
                  /\ alerts'[i].resolved = alerts[i].resolved
                  /\ alerts'[i].resolved_at = alerts[i].resolved_at]_vars

\* of two alerts the first was resolved a while after its creation and then
\* acknowledged; the second is still active
C40_Witness ==
    /\ Len(alerts) = 2
    /\ alerts[1].resolved
    /\ alerts[1].resolved_at = Some(TimeStep)
    /\ alerts[1].timestamp = 0
    /\ alerts[1].acknowledged
    /\ op.kind = "acknowledge"
    /\ op.index = 1
    /\ alert_is_active(alerts[2])


====
